---- MODULE Spec2Model ----
(***************************************************************************)
(* A model of the opencubes polycube enumerator (python sources).          *)
(*                                                                         *)
(* A grid (numpy ndarray of 0/1 cells) is a record                         *)
(*     [shape |-> <<d0, d1, d2>>, data |-> <<c_1, ..., c_(d0*d1*d2)>>]      *)
(* whose data is the array flattened in C order (axis 0 slowest, axis 2    *)
(* fastest), which is numpy's logical order for flatten/ravel/tobytes.     *)
(* Axes are numbered 0..2 as in numpy; cell indices are 0-based.           *)
(* A bytes object is a sequence of integers in 0..255.                     *)
(***************************************************************************)
EXTENDS Integers, Sequences, FiniteSets, TLC

VARIABLES
    polycube,      \* the grid handed to the operation under study
    rotations,     \* the grids a running all_rotations generator has yielded
    RotationIndexes, \* the module-level dict of rotation.py: shape -> index array
    gen,           \* where the running all_rotations generator is suspended
    impl,          \* "python": the code under python/ ; "root": the code beside cubes.py
    cube_id,       \* what pack returned for polycube (None before the call)
    unpacked,      \* what unpack returned for cube_id (None before the call)
    canonical,     \* the canonicalizer calls made so far: <<[arg, result], ...>>
    known_ids,     \* the set known_ids the canonicalizer is called against
    pollycubes,    \* the list generate_polycubes(n - 1) returned to the tier loop of python/cubes.py
    new_cubes,     \* the grids a running expand_cube generator has yielded
    expanded,      \* whether that generator has returned
    packed,        \* the list of identifiers handed to the archive writer
    pcube_stream,  \* the stream the archive is written to and read from
    written,       \* None, or the orientation and compression write was given
    result,        \* what read returned (None before the call)
    args,          \* [n, use_cache]: the arguments generate_polycubes is called with
    cpu_count,     \* multiprocessing.cpu_count()
    cache_dir,     \* the cache files of the working directory
    serial_cubes,  \* what generate_polycubes(..., enable_multicore=False) returned
    multicore_cubes, \* what generate_polycubes(..., enable_multicore=True) returned
    serial_calls,  \* the cache and dispatch calls the serial generate_polycubes made, in order
    multicore_calls, \* the cache and dispatch calls the multicore generate_polycubes made
    task,          \* the name of the task function handed to dispatch_tasks
    test_data,     \* the item list handed to dispatch_tasks
    pool_chunks,   \* the chunks the multicore dispatch handed to pool.map (None before)
    serial_results,    \* what dispatch_tasks(task, test_data, False) returned
    multicore_results, \* what dispatch_tasks(task, test_data, True) returned
    pool,          \* the worker processes: pid -> [chunk, n], the chunk it runs (0: none) and its loop counter
    next_chunk,    \* how many chunks of pool.map the workers have taken
    queue,         \* logging_queue: the messages put and not yet got, oldest first
    status,        \* the dict status of logging_task: uid -> <<done, total>>
    printed,       \* the last line logging_task printed (None before the first)
    returned_chunks \* the chunks whose task has put its last message and returned

rotVars == <<rotations, gen, RotationIndexes>>
packVars == <<cube_id, unpacked>>
canonVars == <<canonical, known_ids, pollycubes>>
expandVars == <<new_cubes, expanded>>
pcubeVars == <<packed, pcube_stream, written, result>>
tierVars == <<args, cpu_count, cache_dir, serial_cubes, multicore_cubes,
              serial_calls, multicore_calls>>
dispatchVars == <<task, test_data, pool_chunks, serial_results, multicore_results>>
progressVars == <<pool, next_chunk, queue, status, printed, returned_chunks>>

vars == <<polycube, impl, rotVars, packVars, canonVars, expandVars, pcubeVars, tierVars,
          dispatchVars, progressVars>>

\* the variables a component leaves alone besides polycube and impl
notRot == <<packVars, canonVars, expandVars, pcubeVars, tierVars, dispatchVars,
    progressVars>>
notPack == <<rotVars, canonVars, expandVars, pcubeVars, tierVars, dispatchVars,
    progressVars>>
notCanon == <<rotVars, packVars, expandVars, pcubeVars, tierVars, dispatchVars,
    progressVars>>
notExpand == <<rotVars, packVars, canonVars, pcubeVars, tierVars, dispatchVars,
    progressVars>>
notPcube == <<rotVars, packVars, canonVars, expandVars, tierVars, dispatchVars,
    progressVars>>
notTier == <<rotVars, packVars, canonVars, expandVars, pcubeVars, dispatchVars,
    progressVars>>
notDispatch == <<rotVars, packVars, canonVars, expandVars, pcubeVars, tierVars,
    progressVars>>
notProgress == <<rotVars, packVars, canonVars, expandVars, pcubeVars, tierVars>>

(***************************************************************************)
(* Bounds of the model.                                                    *)
(***************************************************************************)
MaxDim == 3      \* largest side of an input box
MaxVol == 6      \* largest number of cells (d0*d1*d2) of an input box
MaxBar == 10     \* longest of the short bars given to pack
MaxList == 2     \* longest of the short identifier lists given to the archive writer
MaxN == 4        \* largest tier generate_polycubes is asked for
MaxCpu == 3      \* largest number of cores
MaxItems == 70   \* longest item list handed to dispatch_tasks

(***************************************************************************)
(* numpy primitives, by their semantics on values.                         *)
(***************************************************************************)
Vol(sh) == sh[1] * sh[2] * sh[3]

Range(s) == {s[i] : i \in DOMAIN s}

\* m[x, y, z]
At(g, x, y, z) == g.data[(x * g.shape[2] + y) * g.shape[3] + z + 1]

AtIdx(g, idx) == At(g, idx[1], idx[2], idx[3])

\* np.unravel_index(i - 1, sh): the 0-based cell index of the i-th element
\* of the flattened array
Unravel(sh, i) ==
    <<(i - 1) \div (sh[2] * sh[3]), ((i - 1) \div sh[3]) % sh[2], (i - 1) % sh[3]>>

\* np.ones(sh)
Ones(sh) == [shape |-> sh, data |-> [i \in 1..Vol(sh) |-> 1]]

\* np.flip(m, ax)
Flip(g, ax) ==
    [shape |-> g.shape,
     data  |-> [i \in 1..Vol(g.shape) |->
                  AtIdx(g, [Unravel(g.shape, i) EXCEPT
                               ![ax + 1] = g.shape[ax + 1] - 1 - @])]]

\* np.swapaxes(m, a, b), which is np.transpose with axes a and b exchanged
SwapAxes(g, a, b) ==
    LET sh == [g.shape EXCEPT ![a + 1] = g.shape[b + 1], ![b + 1] = g.shape[a + 1]]
    IN  [shape |-> sh,
         data  |-> [i \in 1..Vol(sh) |->
                      LET c == Unravel(sh, i)
                      IN  AtIdx(g, [c EXCEPT ![a + 1] = c[b + 1], ![b + 1] = c[a + 1]])]]

\* np.rot90(m, k, axes=(a0, a1)), as numpy defines it:
\*   k % 4 = 0: m ; 2: flip(flip(m, a0), a1) ;
\*   1: transpose(flip(m, a1), swapped) ; 3: flip(transpose(m, swapped), a1)
Rot90(m, k, a0, a1) ==
    CASE k % 4 = 0 -> m
      [] k % 4 = 2 -> Flip(Flip(m, a0), a1)
      [] k % 4 = 1 -> SwapAxes(Flip(m, a1), a0, a1)
      [] k % 4 = 3 -> Flip(SwapAxes(m, a0, a1), a1)

(***************************************************************************)
(* libraries/rotation.py (the same generator is in python/libraries)       *)
(***************************************************************************)
\* the number of quarter turns single_axis_rotation makes: range(4)
QuarterTurns == 4

\* mutant: the loop runs range(3), one quarter turn short
single_axis_rotation_three_turns(p, a0, a1) ==
    [i \in 1..(QuarterTurns - 1) |-> Rot90(p, i - 1, a0, a1)]

\* single_axis_rotation(polycube, axes): np.rot90(polycube, i, axes), i in range(4)
single_axis_rotation(p, a0, a1) ==
    [i \in 1..QuarterTurns |-> Rot90(p, i - 1, a0, a1)]

\* mutant: the fourth line turns by 90 degrees like the third, not by 270
yield_from_repeated_turn(p, line) ==
    CASE line = 0 -> <<p, 1, 2>>
      [] line = 1 -> <<Rot90(p, 2, 0, 2), 1, 2>>
      [] line = 2 -> <<Rot90(p, 1, 0, 2), 0, 1>>
      [] line = 3 -> <<Rot90(p, 1, 0, 2), 0, 1>>
      [] line = 4 -> <<Rot90(p, 1, 0, 1), 0, 2>>
      [] line = 5 -> <<Rot90(p, -1, 0, 1), 0, 2>>

\* mutant: the second line turns by 90 degrees about axis 1, not by 180
yield_from_quarter_for_half(p, line) ==
    CASE line = 0 -> <<p, 1, 2>>
      [] line = 1 -> <<Rot90(p, 1, 0, 2), 1, 2>>
      [] line = 2 -> <<Rot90(p, 1, 0, 2), 0, 1>>
      [] line = 3 -> <<Rot90(p, -1, 0, 2), 0, 1>>
      [] line = 4 -> <<Rot90(p, 1, 0, 1), 0, 2>>
      [] line = 5 -> <<Rot90(p, -1, 0, 1), 0, 2>>

\* all_rotations(polycube): the array and the plane of its line-th "yield from"
\* line (line = 0..5), in the order the generator runs them
yield_from(p, line) ==
    CASE line = 0 -> <<p, 1, 2>>
      [] line = 1 -> <<Rot90(p, 2, 0, 2), 1, 2>>
      [] line = 2 -> <<Rot90(p, 1, 0, 2), 0, 1>>
      [] line = 3 -> <<Rot90(p, -1, 0, 2), 0, 1>>
      [] line = 4 -> <<Rot90(p, 1, 0, 1), 0, 2>>
      [] line = 5 -> <<Rot90(p, -1, 0, 1), 0, 2>>

\* the number of "yield from" lines of all_rotations
YieldFromLines == 6

\* the inner generator of the line-th "yield from" line
inner_rotations(p, line) ==
    LET yf == yield_from(p, line)
    IN  single_axis_rotation(yf[1], yf[2], yf[3])

\* list(all_rotations(p)): what the six inner generators yield, in order
all_rotations(p) ==
    inner_rotations(p, 0) \o inner_rotations(p, 1) \o inner_rotations(p, 2)
      \o inner_rotations(p, 3) \o inner_rotations(p, 4) \o inner_rotations(p, 5)

(***************************************************************************)
(* python/libraries/rotation.py: all_rotations_fast                        *)
(***************************************************************************)
\* sorted(shape), ascending
SortedShape(sh) ==
    LET lo == CHOOSE v \in Range(sh) : \A w \in Range(sh) : v <= w
        hi == CHOOSE v \in Range(sh) : \A w \in Range(sh) : v >= w
    IN  <<lo, sh[1] + sh[2] + sh[3] - lo - hi, hi>>

\* mutant: tuple(sorted(polycube.shape))
get_canon_shape_ascending(p) == SortedShape(p.shape)

\* get_canon_shape(polycube): tuple(sorted(polycube.shape, reverse=True))
get_canon_shape(p) ==
    LET s == SortedShape(p.shape) IN <<s[3], s[2], s[1]>>

\* np.arange(n1*n2*n3).reshape(shape)
arange_grid(sh) == [shape |-> sh, data |-> [i \in 1..Vol(sh) |-> i - 1]]

\* func(el): keep el's flattened indices if they are new and el has the
\* ordered shape (rots is the list "rotations"; uniqueRotations is its set)
func(rots, el, orderedShape) ==
    IF el.data \notin Range(rots) /\ el.shape = orderedShape
    THEN Append(rots, el.data)
    ELSE rots

RECURSIVE func_over(_, _, _, _)
\* the six for-loops of all_rotations_fast: func on every rotation of vec,
\* in the order of all_rotations
func_over(rots, els, k, orderedShape) ==
    IF k > Len(els) THEN rots
    ELSE func_over(func(rots, els[k], orderedShape), els, k + 1, orderedShape)

\* the index array all_rotations_fast stores in RotationIndexes[polycube.shape]
rotation_indexes(p) ==
    func_over(<<>>, all_rotations(arange_grid(p.shape)), 1, get_canon_shape(p))

\* polycube.ravel()[ind].reshape((len(ind),) + orderedShape), as the list of
\* its rows
ravel_take(p, ind) ==
    [r \in 1..Len(ind) |->
        [shape |-> get_canon_shape(p),
         data  |-> [j \in 1..Vol(p.shape) |-> p.data[ind[r][j] + 1]]]]

\* all_rotations_fast(polycube) on a first call for the shape of polycube
all_rotations_fast(p) == ravel_take(p, rotation_indexes(p))

\* all_rotations_fast(polycube) when RotationIndexes is cache: what it returns
\* and what RotationIndexes is afterwards
all_rotations_fast_call(p, cache) ==
    IF p.shape \in DOMAIN cache
    THEN [returned |-> ravel_take(p, cache[p.shape]), RotationIndexes |-> cache]
    ELSE CHOOSE call \in {
            [returned |-> ravel_take(p, ind),
             RotationIndexes |-> [sh \in DOMAIN cache \cup {p.shape} |->
                                     IF sh = p.shape THEN ind ELSE cache[sh]]] :
            ind \in {rotation_indexes(p)}} : TRUE

(***************************************************************************)
(* Python values the model needs besides grids and bytes.                  *)
(***************************************************************************)
None == [type |-> "NoneType"]

\* what a call leaves behind: the value it returned, or the exception it raised
Returned(v) == [type |-> "value", val |-> v]
Raise(exc) == [type |-> "exception", exc |-> exc]
Raised(r) == r.type = "exception"
HasValue(r) == r.type = "value"

OverflowError == "OverflowError"
TypeError == "TypeError"
IndexError == "IndexError"
ValueError == "ValueError"
ZeroDivisionError == "ZeroDivisionError"
EOFError == "EOFError"
BadGzipFile == "BadGzipFile"

\* bytes a > bytes b: lexicographic, a proper prefix being the smaller
BytesGreater(a, b) ==
    LET n    == IF Len(a) < Len(b) THEN Len(a) ELSE Len(b)
        diff == {i \in 1..n : a[i] # b[i]}
    IN  IF diff = {} THEN Len(a) > Len(b)
        ELSE LET k == CHOOSE i \in diff : \A j \in diff : i <= j
             IN  a[k] > b[k]

Pow2(b) == CASE b = 0 -> 1 [] b = 1 -> 2 [] b = 2 -> 4 [] b = 3 -> 8
             [] b = 4 -> 16 [] b = 5 -> 32 [] b = 6 -> 64 [] b = 7 -> 128

\* the largest value int.to_bytes(1, ...) encodes
MaxByte == 255

\* n.to_bytes(1, byteorder): one byte, or OverflowError outside 0..255
to_bytes(n) == IF n \in 0..MaxByte THEN Returned(<<n>>) ELSE Raise(OverflowError)

(***************************************************************************)
(* python/libraries/packing.py                                             *)
(***************************************************************************)
\* np.packbits(bits, bitorder='little'): 8 cells per byte, first cell in
\* the lowest bit, the last byte padded with zero bits; a non-zero cell is 1
packbits(bits) ==
    [j \in 1..((Len(bits) + 7) \div 8) |->
        LET Bit(b) == IF 8 * (j - 1) + b + 1 <= Len(bits)
                         /\ bits[8 * (j - 1) + b + 1] # 0
                      THEN Pow2(b) ELSE 0
        IN  Bit(0) + Bit(1) + Bit(2) + Bit(3) + Bit(4) + Bit(5) + Bit(6) + Bit(7)]

\* mutant: the bits of a byte are read highest first (bitorder='big')
unpackbits_big(body, count) ==
    [i \in 1..count |->
        IF (i + 7) \div 8 <= Len(body)
        THEN (body[(i + 7) \div 8] \div Pow2(7 - ((i - 1) % 8))) % 2
        ELSE 0]

\* np.unpackbits(body, count=count, bitorder='little'): the first count bits,
\* lowest bit of each byte first (zero where the bytes run out)
unpackbits(body, count) ==
    [i \in 1..count |->
        IF (i + 7) \div 8 <= Len(body)
        THEN (body[(i + 7) \div 8] \div Pow2((i - 1) % 8)) % 2
        ELSE 0]

\* packShape(shape): the three shape bytes, or the error to_bytes raises
packShape(sh) ==
    IF \E ax \in 1..3 : Raised(to_bytes(sh[ax])) THEN Raise(OverflowError)
    ELSE Returned(to_bytes(sh[1]).val \o to_bytes(sh[2]).val \o to_bytes(sh[3]).val)

\* pack(polycube): shape bytes, then the cells packed 8 to a byte
pack(p) ==
    IF Raised(packShape(p.shape)) THEN packShape(p.shape)
    ELSE Returned(packShape(p.shape).val \o packbits(p.data))

\* cube_id[3:]
BytesFrom(b, first) == [i \in 1..(Len(b) - first + 1) |-> b[i + first - 1]]

\* unpack(cube_id)
unpack(id) ==
    LET shape == <<id[1], id[2], id[3]>>
        size  == shape[1] * shape[2] * shape[3]
    IN  Returned([shape |-> shape, data |-> unpackbits(BytesFrom(id, 4), size)])

(***************************************************************************)
(* libraries/packing.py                                                    *)
(***************************************************************************)
\* ndarray.tobytes() of an int8 array: one byte per cell, two's complement
tobytes(p) == [i \in 1..Len(p.data) |-> p.data[i] % 256]

\* np.frombuffer(buf, dtype=np.int8)
frombuffer_int8(buf) == [i \in 1..Len(buf) |-> IF buf[i] < 128 THEN buf[i] ELSE buf[i] - 256]

\* pack(polycube): the cell bytes, then the three shape bytes
root_pack(p) ==
    IF Raised(packShape(p.shape)) THEN packShape(p.shape)
    ELSE Returned(tobytes(p) \o packShape(p.shape).val)

\* unpack(cube_id): ValueError when reshape is given the wrong number of cells
root_unpack(id) ==
    LET n     == Len(id)
        shape == <<id[n - 2], id[n - 1], id[n]>>
        cells == frombuffer_int8(SubSeq(id, 1, n - 3))
    IN  IF Len(cells) # Vol(shape) THEN Raise(ValueError)
        ELSE Returned([shape |-> shape, data |-> cells])

(***************************************************************************)
(* The canonicalizers: python/cubes.py get_canonical_packing and cubes.py  *)
(* get_canoincal_packing.                                                  *)
(***************************************************************************)
\* the two kinds of Python object the comparisons of the canonicalizers meet
PyInt(n) == [pytype |-> "int", int |-> n]
PyBytes(b) == [pytype |-> "bytes", bytes |-> b]

\* a > b: bytes against bytes and int against int are ordered, bytes against
\* int is a TypeError
Greater(a, b) ==
    IF a.pytype = "bytes" /\ b.pytype = "bytes"
    THEN Returned(BytesGreater(a.bytes, b.bytes))
    ELSE IF a.pytype = "int" /\ b.pytype = "int"
    THEN Returned(a.int > b.int)
    ELSE Raise(TypeError)

\* the for loop of get_canonical_packing from the k-th rotation on
RECURSIVE canonical_loop(_, _, _, _)
canonical_loop(rots, k, max_id, known) ==
    IF k > Len(rots) THEN Returned(max_id)
    ELSE LET this_id == pack(rots[k])
         IN  IF Raised(this_id) THEN this_id
             ELSE IF this_id.val \in known THEN Returned(PyBytes(this_id.val))
             ELSE LET gt == Greater(PyBytes(this_id.val), max_id)
                  IN  IF Raised(gt) THEN gt
                      ELSE canonical_loop(rots, k + 1,
                               IF gt.val THEN PyBytes(this_id.val) ELSE max_id, known)

\* mutant: the canonicalizer packs polycube as it is given, unrotated
get_canonical_packing_unrotated(p, known) ==
    canonical_loop(<<p>>, 1, PyBytes(<<0>>), known)

\* mutant: known_ids is consulted for the packing of polycube itself only
get_canonical_packing_own_packing_only(p, known) ==
    IF HasValue(pack(p)) /\ pack(p).val \in known THEN Returned(PyBytes(pack(p).val))
    ELSE canonical_loop(all_rotations(p), 1, PyBytes(<<0>>), {})

\* get_canonical_packing(polycube, known_ids): max_id starts as b'\x00'
get_canonical_packing(p, known) ==
    canonical_loop(all_rotations(p), 1, PyBytes(<<0>>), known)

\* the for loop of get_canoincal_packing from the k-th rotation on
RECURSIVE canoincal_loop(_, _, _)
canoincal_loop(rots, k, max_hash) ==
    IF k > Len(rots) THEN Returned(max_hash)
    ELSE LET this_hash == root_pack(rots[k])
         IN  IF Raised(this_hash) THEN this_hash
             ELSE LET gt == Greater(PyBytes(this_hash.val), max_hash)
                  IN  IF Raised(gt) THEN gt
                      ELSE canoincal_loop(rots, k + 1,
                               IF gt.val THEN PyBytes(this_hash.val) ELSE max_hash)

\* get_canoincal_packing(polycube): max_hash starts as the int 0
get_canoincal_packing(p) == canoincal_loop(all_rotations(p), 1, PyInt(0))

(***************************************************************************)
(* The expanders: python/libraries/resizing.py and libraries/cropping.py.  *)
(***************************************************************************)
\* the members of a finite set of integers in increasing order
Ascending(S) ==
    [k \in 1..Cardinality(S) |->
        CHOOSE x \in S : Cardinality({y \in S : y < x}) = k - 1]

\* one pass of crop_cube's loop: along axis i keep the slices that hold a
\* non-zero cell
crop_axis(g, i) ==
    LET swapped == SwapAxes(g, 0, i)
        nonzero_indices ==
            Ascending({x \in 0..(swapped.shape[1] - 1) :
                \E y \in 0..(swapped.shape[2] - 1), z \in 0..(swapped.shape[3] - 1) :
                    At(swapped, x, y, z) # 0})
        sh   == <<Len(nonzero_indices), swapped.shape[2], swapped.shape[3]>>
        kept == [shape |-> sh,
                 data  |-> [j \in 1..Vol(sh) |->
                              LET c == Unravel(sh, j)
                              IN  At(swapped, nonzero_indices[c[1] + 1], c[2], c[3])]]
    IN  SwapAxes(kept, 0, i)

\* mutant: the loop runs range(2), leaving the last axis uncropped
crop_cube_two_axes(g) == crop_axis(crop_axis(g, 0), 1)

crop_cube(g) == crop_axis(crop_axis(crop_axis(g, 0), 1), 2)

\* what fix_axis leaves when it falls through every test to exit(2): no grid
NoGrid == [shape |-> <<0, 0, 0>>, data |-> <<>>]

\* fix_axis(cube): a rotation of cube whose sides are in ascending order
fix_axis(g) ==
    LET a == g.shape[1]
        b == g.shape[2]
        c == g.shape[3]
    IN  IF a <= b /\ b <= c THEN g
        ELSE IF a >= b /\ b >= c THEN Rot90(g, 1, 0, 2)
        ELSE IF a = b \/ b = c
             THEN (IF a < c THEN g ELSE Rot90(g, 1, 0, 2))
        ELSE IF a = c
             THEN (IF a < b THEN Rot90(g, 1, 1, 2) ELSE Rot90(g, 1, 0, 1))
        ELSE IF a < c /\ c < b THEN Rot90(g, 1, 1, 2)
        ELSE IF b < c /\ c < a THEN Rot90(Rot90(g, 1, 0, 1), 1, 1, 2)
        ELSE IF b < a /\ a < c THEN Rot90(g, 1, 0, 1)
        ELSE IF c < a /\ a < b THEN Rot90(Rot90(g, 1, 1, 2), 1, 0, 1)
        ELSE NoGrid

\* np.pad(cube, 1, 'constant', constant_values=0)
pad(g) ==
    LET sh == <<g.shape[1] + 2, g.shape[2] + 2, g.shape[3] + 2>>
    IN  [shape |-> sh,
         data  |-> [i \in 1..Vol(sh) |->
                      LET c == Unravel(sh, i)
                      IN  IF \A ax \in 1..3 : c[ax] \in 1..g.shape[ax]
                          THEN At(g, c[1] - 1, c[2] - 1, c[3] - 1)
                          ELSE 0]]

\* the flat positions of the non-zero cells, in C order (ndarray.nonzero())
nonzero(g) == Ascending({i \in 1..Vol(g.shape) : g.data[i] # 0})

\* mutant: the six shifts and a diagonal one
Shifts_with_diagonal ==
    {<<1, 0, 0>>, <<-1, 0, 0>>, <<0, 1, 0>>, <<0, -1, 0>>, <<0, 0, 1>>, <<0, 0, -1>>,
     <<1, 1, 0>>}

\* the six index shifts of output_cube[xs+1, ys, zs] = 1 ... [xs, ys, zs-1] = 1
Shifts ==
    {<<1, 0, 0>>, <<-1, 0, 0>>, <<0, 1, 0>>, <<0, -1, 0>>, <<0, 0, 1>>, <<0, 0, -1>>}

\* is c a cell index of g
InGrid(g, c) == \A ax \in 1..3 : c[ax] \in 0..(g.shape[ax] - 1)

\* output_cube: the padded cube with every shifted copy of its non-zero cells
\* set to 1
output_cube(cube) ==
    [shape |-> cube.shape,
     data  |-> [i \in 1..Vol(cube.shape) |->
                  LET c == Unravel(cube.shape, i)
                  IN  IF \E sh \in Shifts :
                            LET from == <<c[1] - sh[1], c[2] - sh[2], c[3] - sh[3]>>
                            IN  InGrid(cube, from) /\ AtIdx(cube, from) # 0
                      THEN 1
                      ELSE cube.data[i]]]

\* a ^ b on cell values 0 and 1
Xor(a, b) == (a + b) % 2

\* exp = (output_cube ^ cube).nonzero(), as flat positions of the padded cube
exp(cube) ==
    nonzero([shape |-> cube.shape,
             data  |-> [i \in 1..Vol(cube.shape) |->
                          Xor(output_cube(cube).data[i], cube.data[i])]])

\* new_cube of the k-th pass of expand_cube's loop
new_cube(cube, k) == [cube EXCEPT !.data[exp(cube)[k]] = 1]

\* how many grids expand_cube(p) yields
expand_count(p) == Len(exp(pad(p)))

\* the k-th grid python/libraries/resizing.py expand_cube(p) yields
expand_cube(p, k) == fix_axis(crop_cube(new_cube(pad(p), k)))

\* the k-th grid libraries/cropping.py expand_cube(p) yields
root_expand_cube(p, k) == crop_cube(new_cube(pad(p), k))

(***************************************************************************)
(* python/libraries/pcube.py: the archive writer and reader, with the      *)
(* stream, LEB128 and gzip operations they call.                           *)
(***************************************************************************)
\* a binary stream (io.BytesIO): its bytes and the position of the next read
\* or write
BytesIO == [buf |-> <<>>, pos |-> 0]

\* fp.write(b) at the end of the stream
fp_write(fp, b) == [buf |-> fp.buf \o b, pos |-> Len(fp.buf) + Len(b)]

\* fp.seek(0)
fp_seek0(fp) == [fp EXCEPT !.pos = 0]

\* the bytes fp.read(n) returns: at most n, fewer at the end of the stream
fp_read(fp, n) ==
    SubSeq(fp.buf, fp.pos + 1, IF fp.pos + n <= Len(fp.buf) THEN fp.pos + n ELSE Len(fp.buf))

\* the stream after fp.read(n)
fp_skip(fp, n) ==
    [fp EXCEPT !.pos = IF fp.pos + n <= Len(fp.buf) THEN fp.pos + n ELSE Len(fp.buf)]

\* the bytes fp.read() returns: everything that is left
fp_read_all(fp) == SubSeq(fp.buf, fp.pos + 1, Len(fp.buf))

\* 1<<7: the continuation bit of a LEB128 byte, and the first count that
\* takes two bytes
vlq_continue_mask == 128

\* bytes.fromhex('CBECCBEC')
magic_string == <<203, 236, 203, 236>>

\* the values of the enums Orientation and Compression
OrientationValues == {0, 1}
\* mutant: every byte is taken for a compression value
CompressionValues_any_byte == 0..255

CompressionValues == {0, 1}
GZIP_COMPRESSION == 1

\* int.from_bytes(b, 'little') of at most one byte: 0 for b''
from_bytes(b) == IF b = <<>> THEN 0 ELSE b[1]

\* leb128.u.encode(i): seven bits to a byte, lowest group first, the high bit
\* set on every byte but the last
RECURSIVE leb128_encode(_)
leb128_encode(i) ==
    IF i \div 128 = 0 THEN <<i % 128>>
    ELSE <<128 + (i % 128)>> \o leb128_encode(i \div 128)

\* leb128.u.decode_reader(fp) from the stream position on: the value and the
\* number of bytes read, EOFError when the stream ends inside the number;
\* weight is 128 to the number of bytes already read
RECURSIVE leb128_decode_reader(_, _, _, _)
leb128_decode_reader(fp, nread, weight, acc) ==
    LET b == fp_read(fp_skip(fp, nread), 1)
    IN  IF Len(b) # 1 THEN Raise(EOFError)
        ELSE IF b[1] < 128
        THEN Returned([value |-> acc + b[1] * weight, read |-> nread + 1])
        ELSE leb128_decode_reader(fp, nread + 1, weight * 128,
                                  acc + (b[1] - 128) * weight)

\* an unsigned integer as nbytes little-endian bytes
RECURSIVE le_bytes(_, _)
le_bytes(v, nbytes) ==
    IF nbytes = 0 THEN <<>> ELSE <<v % 256>> \o le_bytes(v \div 256, nbytes - 1)

\* the unsigned integer of little-endian bytes
RECURSIVE le_value(_)
le_value(b) == IF b = <<>> THEN 0 ELSE b[1] + 256 * le_value(Tail(b))

\* the sum of k * data[k] over the positions lo..hi
RECURSIVE weighted_sum(_, _, _)
weighted_sum(data, lo, hi) ==
    IF lo > hi THEN 0
    ELSE IF lo = hi THEN lo * data[lo]
    ELSE weighted_sum(data, lo, (lo + hi) \div 2)
             + weighted_sum(data, (lo + hi) \div 2 + 1, hi)

\* the check value of the gzip trailer (stands for CRC-32: the sum of the
\* bytes weighted by position, modulo 2^16)
checksum(data) == weighted_sum(data, 1, Len(data)) % 65536

\* gzip.compress(data, 5) as a gzip member: the 10-byte header (magic 1f 8b,
\* method 8, flags 0, a 4-byte mtime, xfl, os), one final stored DEFLATE
\* block (01, LEN, NLEN, the bytes), then the check value and the length
gzip_compress(data, mtime) ==
    <<31, 139, 8, 0>> \o le_bytes(mtime, 4) \o <<0, 255>>
        \o <<1>> \o le_bytes(Len(data), 2) \o le_bytes(65535 - Len(data), 2) \o data
        \o le_bytes(checksum(data), 4) \o le_bytes(Len(data), 4)

\* gzip.decompress(b): the bytes of the member, BadGzipFile / EOFError when
\* the header, the block, the check value or the length is wrong
gzip_decompress(b) ==
    IF Len(b) < 10 THEN Raise(EOFError)
    ELSE IF SubSeq(b, 1, 3) # <<31, 139, 8>> THEN Raise(BadGzipFile)
    ELSE IF Len(b) < 15 THEN Raise(EOFError)
    ELSE LET len  == le_value(SubSeq(b, 12, 13))
             nlen == le_value(SubSeq(b, 14, 15))
             data == SubSeq(b, 16, 15 + len)
         IN  IF b[11] # 1 \/ len + nlen # 65535 THEN Raise(BadGzipFile)
             ELSE IF Len(b) < 15 + len + 8 THEN Raise(EOFError)
             ELSE IF le_value(SubSeq(b, 16 + len, 19 + len)) # checksum(data)
                     \/ le_value(SubSeq(b, 20 + len, 23 + len)) # len
             THEN Raise(BadGzipFile)
             ELSE Returned(data)

\* the concatenation of the bytes objects list[lo..hi]
RECURSIVE concat_range(_, _, _)
concat_range(list, lo, hi) ==
    IF lo > hi THEN <<>>
    ELSE IF lo = hi THEN list[lo]
    ELSE concat_range(list, lo, (lo + hi) \div 2)
             \o concat_range(list, (lo + hi) \div 2 + 1, hi)

\* the concatenation of a list of bytes objects
concat(list) == concat_range(list, 1, Len(list))

\* write(fp, orientation, polycubes, compression): the stream afterwards
write(fp, orientation, polycubes, compression, mtime) ==
    LET header == magic_string \o to_bytes(orientation).val \o to_bytes(compression).val
                      \o leb128_encode(Len(polycubes))
    IN  IF compression = GZIP_COMPRESSION
        THEN fp_write(fp_write(fp, header), gzip_compress(concat(polycubes), mtime))
        ELSE fp_write(fp_write(fp, header), concat(polycubes))

\* read_block(fp): the record read and the stream afterwards; IndexError
\* when fewer than three shape bytes are left
read_block(fp) ==
    LET shape == fp_read(fp, 3)
    IN  IF Len(shape) < 3 THEN Raise(IndexError)
        ELSE LET size == (shape[1] * shape[2] * shape[3] + 7) \div 8
                 body == fp_read(fp_skip(fp, 3), size)
             IN  Returned([block |-> shape \o body,
                           fp    |-> fp_skip(fp_skip(fp, 3), size)])

\* n passes of "cubes.append(read_block(use_fp))": the records appended and
\* the stream afterwards, or the exception of the first pass that raises.
\* n passes are the first n \div 2 passes followed by the remaining ones.
RECURSIVE read_blocks(_, _)
read_blocks(use_fp, n) ==
    IF n = 0 THEN Returned([cubes |-> <<>>, fp |-> use_fp])
    ELSE IF n = 1
    THEN LET r == read_block(use_fp)
         IN  IF Raised(r) THEN r
             ELSE Returned([cubes |-> <<r.val.block>>, fp |-> r.val.fp])
    ELSE LET first == read_blocks(use_fp, n \div 2)
         IN  IF Raised(first) THEN first
             ELSE LET rest == read_blocks(first.val.fp, n - n \div 2)
                  IN  IF Raised(rest) THEN rest
                      ELSE Returned([cubes |-> first.val.cubes \o rest.val.cubes,
                                     fp    |-> rest.val.fp])

\* for n in range(0, n_cubes): cubes.append(read_block(use_fp))
read_counted(use_fp, n_cubes) ==
    LET r == read_blocks(use_fp, n_cubes)
    IN  IF Raised(r) THEN r ELSE Returned(r.val.cubes)

\* while(fp.readable()): cubes.append(read_block(use_fp)); readable() is true
\* of every open stream, so the loop only ends when read_block raises
RECURSIVE read_while_readable(_, _)
read_while_readable(use_fp, cubes) ==
    LET r == read_block(use_fp)
    IN  IF Raised(r) THEN r
        ELSE read_while_readable(r.val.fp, Append(cubes, r.val.block))

\* read(fp, ignore_orientation): Polycubes(orientation, polycubes) or the
\* exception raised
read(fp, ignore_orientation) ==
    LET magic       == fp_read(fp, 4)
        fp1         == fp_skip(fp, 4)
        orientation == IF ignore_orientation THEN 0 ELSE from_bytes(fp_read(fp1, 1))
        fp2         == fp_skip(fp1, 1)
        compression == from_bytes(fp_read(fp2, 1))
        fp3         == fp_skip(fp2, 1)
        leb         == leb128_decode_reader(fp3, 0, 1, 0)
    IN  IF magic # magic_string THEN Raise(ValueError)
        ELSE IF orientation \notin OrientationValues THEN Raise(ValueError)
        ELSE IF compression \notin CompressionValues THEN Raise(ValueError)
        ELSE IF Raised(leb) THEN leb
        ELSE LET n_cubes == leb.val.value
                 fp4     == fp_skip(fp3, leb.val.read)
                 plain   == IF compression = GZIP_COMPRESSION
                            THEN gzip_decompress(fp_read_all(fp4))
                            ELSE Returned(<<>>)
             IN  IF Raised(plain) THEN plain
                 ELSE LET use_fp == IF compression = GZIP_COMPRESSION
                                    THEN [buf |-> plain.val, pos |-> 0]
                                    ELSE fp4
                          cubes  == IF n_cubes = 0
                                    THEN read_while_readable(use_fp, <<>>)
                                    ELSE read_counted(use_fp, n_cubes)
                      IN  IF Raised(cubes) THEN cubes
                          ELSE Returned([orientation |-> orientation,
                                         polycubes   |-> cubes.val])

(***************************************************************************)
(* libraries/cache.py, libraries/parallel.py and the tier engine of        *)
(* cubes.py. A call whose outcome depends on the order in which a Python   *)
(* set is visited is modelled by the set of its possible outcomes.         *)
(***************************************************************************)
\* the two Python collections the tier engine passes around
PyList(s) == [pytype |-> "list", list |-> s]
PySet(S) == [pytype |-> "set", set |-> S]

\* len(v)
PyLen(v) == IF v.pytype = "list" THEN Len(v.list) ELSE Cardinality(v.set)

\* the orders in which "for x in v" can visit v: the order of a list, any
\* order of a set
Iterations(v) ==
    IF v.pytype = "list" THEN {v.list}
    ELSE {f \in [1..Cardinality(v.set) -> v.set] :
            \A i, j \in DOMAIN f : f[i] = f[j] => i = j}

\* of the calls calls[lo..hi], made in that order: the exception of the first
\* one that raised, or None when every call returned
RECURSIVE first_raised_in(_, _, _)
first_raised_in(calls, lo, hi) ==
    IF lo > hi THEN None
    ELSE IF lo = hi THEN (IF Raised(calls[lo]) THEN calls[lo] ELSE None)
    ELSE LET early == first_raised_in(calls, lo, (lo + hi) \div 2)
         IN  IF early # None THEN early
             ELSE first_raised_in(calls, (lo + hi) \div 2 + 1, hi)

first_raised(calls) == first_raised_in(calls, 1, Len(calls))

\* a cache directory: for every tier the list saved in cubes_{n}.npy, or
\* NoFile
NoFile == [pytype |-> "nofile"]

\* mutant: the cache file is never found
cache_exists_never(n, fs) == FALSE

\* cache_exists(n)
cache_exists(n, fs) == n \in DOMAIN fs /\ fs[n] # NoFile

\* get_cache(n)
get_cache(n, fs) == fs[n]

\* save_cache(n, polycubes): the directory afterwards
save_cache(n, polycubes, fs) == [fs EXCEPT ![n] = PyList(polycubes)]

\* the logging queue init_parrelism creates
Queue == [type |-> "Queue"]

\* hash_cubes_task((base_cubes, logging_queue)): the set of the canonical
\* identifiers of every expansion of every base cube; calls are the calls of
\* get_canoincal_packing in the order the loops make them; the closing
\* progress print of a serial run divides by len(base_cubes)
hash_cubes_task(base_cubes, logging_queue) ==
    CHOOSE returned \in {
        IF first_raised(calls) # None THEN first_raised(calls)
        ELSE IF logging_queue = None /\ Len(base_cubes) = 0
        THEN Raise(ZeroDivisionError)
        ELSE Returned(PySet({calls[j].val : j \in DOMAIN calls})) :
        calls \in {concat([i \in 1..Len(base_cubes) |->
                      [k \in 1..expand_count(base_cubes[i]) |->
                          get_canoincal_packing(root_expand_cube(base_cubes[i], k))]])}} : TRUE

\* the calls unpack(cube_hash) for cube_hash in cube_hashes[1..n]
RECURSIVE unpack_calls(_, _)
unpack_calls(cube_hashes, n) ==
    IF n = 0 THEN <<>>
    ELSE Append(unpack_calls(cube_hashes, n - 1), root_unpack(cube_hashes[n].bytes))

\* unpack_hashes_task((cube_hashes, logging_queue)): the list of the grids of
\* the identifiers, in the order they are visited
unpack_hashes_task(cube_hashes, logging_queue) ==
    CHOOSE returned \in {
        IF first_raised(calls) # None THEN first_raised(calls)
        ELSE IF logging_queue = None /\ Len(cube_hashes) = 0
        THEN Raise(ZeroDivisionError)
        ELSE Returned(PyList([i \in 1..Len(cube_hashes) |-> calls[i].val])) :
        calls \in {unpack_calls(cube_hashes, Len(cube_hashes))}} : TRUE

\* tests/test_parallel.py reverse_ints_task((data, logger)): data[::-1]
reverse_ints_task(data, logger) ==
    Returned(PyList([i \in 1..Len(data) |-> data[Len(data) + 1 - i]]))

\* task_function((items, logging_queue)) for the two tasks of the engine and
\* the task of the test, items being given in the order the task visits them
run_task(task_function, items, logging_queue) ==
    IF task_function = "hash_cubes_task" THEN hash_cubes_task(items, logging_queue)
    ELSE IF task_function = "unpack_hashes_task"
    THEN unpack_hashes_task(items, logging_queue)
    ELSE reverse_ints_task(items, logging_queue)

\* the bounds of a chunk: at least 32 items, at most 10000
MinChunk == 32
MaxChunk == 10000

\* math.ceil(a / b)
Ceil(a, b) == (a + b - 1) \div b

\* mutant: per_core_split = len(items) // multiprocessing.cpu_count()
chunk_size_floor(len, cores) ==
    LET per_core_split == len \div cores
        capped == IF per_core_split < MaxChunk THEN per_core_split ELSE MaxChunk
    IN  IF capped > MinChunk THEN capped ELSE MinChunk

\* chunk_size of dispatch_tasks
chunk_size(len, cores) ==
    LET per_core_split == Ceil(len, cores)
        capped == IF per_core_split < MaxChunk THEN per_core_split ELSE MaxChunk
    IN  IF capped > MinChunk THEN capped ELSE MinChunk

\* chunks of dispatch_tasks: items[chunk_base : min(chunk_base + chunk_size, len)]
\* for chunk_base in range(0, len, chunk_size)
chunks(items, cores) ==
    LET size == chunk_size(Len(items), cores)
    IN  [c \in 1..Ceil(Len(items), size) |->
            SubSeq(items, (c - 1) * size + 1,
                   IF c * size < Len(items) THEN c * size ELSE Len(items))]

\* the lists "for result in reversed(results): final_result += list(result)"
\* can build from results[1..c]
RECURSIVE final_results(_, _)
final_results(results, c) ==
    IF c = 0 THEN {<<>>}
    ELSE {listed \o before :
            listed \in Iterations(results[c].val),
            before \in final_results(results, c - 1)}

\* pool.map(task_function, chunks): the results of the first c chunks
RECURSIVE pool_map(_, _, _)
pool_map(task_function, chunked, c) ==
    IF c = 0 THEN <<>>
    ELSE Append(pool_map(task_function, chunked, c - 1),
                run_task(task_function, chunked[c], Queue))

\* dispatch_tasks(task_function, items, enable_multicore): its possible
\* outcomes
dispatch_tasks(task_function, items, enable_multicore, cores) ==
    IF ~enable_multicore
    THEN {run_task(task_function, visited, None) : visited \in Iterations(items)}
    ELSE IF items.pytype # "list" THEN {Raise(TypeError)}
    ELSE UNION {
        IF first_raised(results) # None THEN {first_raised(results)}
        ELSE {Returned(PyList(final)) : final \in final_results(results, Len(results))} :
        results \in {pool_map(task_function, chunks(items.list, cores),
                              Len(chunks(items.list, cores)))}}

\* a call generate_polycubes makes for tier n: fn is "get_cache", "save_cache"
\* or, for a dispatch_tasks call, the name of the task dispatched
Call(fn, n) == [fn |-> fn, n |-> n]

\* mutant: "if (use_cache): save_cache(n, results)"
save_whenever_use_cache(n, use_cache, results, fs, calls) ==
    IF use_cache
    THEN [result |-> results, fs |-> save_cache(n, results.val.list, fs),
          calls |-> Append(calls, Call("save_cache", n))]
    ELSE [result |-> results, fs |-> fs, calls |-> calls]

\* the end of generate_polycubes once results is bound, nothing having raised:
\* "if (use_cache and not cache_exists(n)): save_cache(n, results)", then
\* "return results"
save_and_return(n, use_cache, results, fs, calls) ==
    IF use_cache /\ ~cache_exists(n, fs)
    THEN [result |-> results, fs |-> save_cache(n, results.val.list, fs),
          calls |-> Append(calls, Call("save_cache", n))]
    ELSE [result |-> results, fs |-> fs, calls |-> calls]

\* generate_polycubes(n, use_cache, enable_multicore) run in the cache
\* directory fs: its possible outcomes, each the result (or the exception),
\* the directory afterwards and the cache and dispatch calls made
RECURSIVE generate_polycubes(_, _, _, _, _)
generate_polycubes(n, use_cache, enable_multicore, cores, fs) ==
    IF n < 1 THEN {[result |-> Returned(PyList(<<>>)), fs |-> fs, calls |-> <<>>]}
    ELSE IF n = 1
    THEN {[result |-> Returned(PyList(<<Ones(<<1, 1, 1>>)>>)), fs |-> fs, calls |-> <<>>]}
    ELSE IF n = 2
    THEN {[result |-> Returned(PyList(<<Ones(<<2, 1, 1>>)>>)), fs |-> fs, calls |-> <<>>]}
    ELSE IF use_cache /\ cache_exists(n, fs)
    THEN {save_and_return(n, use_cache, Returned(get_cache(n, fs)), fs,
                          <<Call("get_cache", n)>>)}
    ELSE UNION {
        IF Raised(below.result) THEN {below}
        ELSE UNION {
            IF Raised(hashed)
            THEN {[result |-> hashed, fs |-> below.fs,
                   calls  |-> Append(below.calls, Call("hash_cubes_task", n))]}
            ELSE {IF Raised(results)
                  THEN [result |-> results, fs |-> below.fs,
                        calls  |-> below.calls \o <<Call("hash_cubes_task", n),
                                                    Call("unpack_hashes_task", n)>>]
                  ELSE save_and_return(n, use_cache, results, below.fs,
                                       below.calls \o <<Call("hash_cubes_task", n),
                                                        Call("unpack_hashes_task", n)>>) :
                  results \in dispatch_tasks("unpack_hashes_task", hashed.val,
                                             enable_multicore, cores)} :
            hashed \in dispatch_tasks("hash_cubes_task", below.result.val,
                                      enable_multicore, cores)} :
        below \in generate_polycubes(n - 1, use_cache, enable_multicore, cores, fs)}

(***************************************************************************)
(* Input grids: every 0/1 grid in a box with sides in 1..MaxDim and at     *)
(* most MaxVol cells, and every 0/1 grid in the 2x2x2 cube (the smallest   *)
(* box with three equal sides that is not a single cell).                  *)
(***************************************************************************)
Shapes ==
    {sh \in (1..MaxDim) \X (1..MaxDim) \X (1..MaxDim) : Vol(sh) <= MaxVol}
        \cup {<<2, 2, 2>>}

GridsOfShape(sh) == {[shape |-> sh, data |-> d] : d \in [1..Vol(sh) -> {0, 1}]}

Grids == UNION {GridsOfShape(sh) : sh \in Shapes}

\* the L x 1 x 1 and 1 x 1 L bars whose first j cells are filled
BarsOfLength(L) ==
    {[shape |-> sh, data |-> [i \in 1..L |-> IF i <= j THEN 1 ELSE 0]] :
        sh \in {<<L, 1, 1>>, <<1, 1, L>>}, j \in 0..L}

\* the arrays without cells: np.zeros(sh) for a shape with a side of 0
EmptyGrids ==
    {[shape |-> sh, data |-> <<>>] : sh \in {<<0, 1, 1>>, <<1, 0, 2>>, <<2, 2, 0>>, <<0, 0, 0>>}}

\* inputs of pack: the input grids, short bars, bars of the longest side a
\* shape byte can hold, bars one cell longer than that, and arrays without
\* cells
PackGrids ==
    Grids \cup UNION {BarsOfLength(L) : L \in (1..MaxBar) \cup {MaxByte, MaxByte + 1}}
          \cup EmptyGrids

(***************************************************************************)
(* What a polycube is (spec section 3): non-empty, cropped, face-connected.*)
(***************************************************************************)
FilledCells(g) ==
    {c \in (0..(g.shape[1] - 1)) \X (0..(g.shape[2] - 1)) \X (0..(g.shape[3] - 1)) :
        AtIdx(g, c) # 0}

Abs(n) == IF n < 0 THEN -n ELSE n

\* two cells that differ by one unit along exactly one axis
FaceAdjacent(c, d) == Abs(c[1] - d[1]) + Abs(c[2] - d[2]) + Abs(c[3] - d[3]) = 1

RECURSIVE Flood(_, _)
Flood(reached, cells) ==
    LET more == {c \in cells \ reached : \E r \in reached : FaceAdjacent(c, r)}
    IN  IF more = {} THEN reached ELSE Flood(reached \cup more, cells)

FaceConnectedCells(cells) ==
    cells # {} /\ Flood({CHOOSE c \in cells : TRUE}, cells) = cells

FaceConnected(g) == FaceConnectedCells(FilledCells(g))

\* every one of the six bounding-box faces holds a filled cell
Cropped(g) ==
    \A ax \in 1..3 : \A side \in {0, g.shape[ax] - 1} :
        \E c \in FilledCells(g) : c[ax] = side

IsPolycube(g) == FaceConnected(g) /\ Cropped(g)

\* the polycubes among the input grids
Polycubes == {g \in Grids : IsPolycube(g)}

(***************************************************************************)
(* SpecRot: a caller draining the all_rotations generator of one grid.     *)
(* gen = [line, i]: the generator is suspended in its line-th "yield from" *)
(* line, whose inner generator has yielded i grids; line = YieldFromLines  *)
(* when the generator has returned (StopIteration).                        *)
(***************************************************************************)
Implementations == {"python", "root"}

\* no all_rotations generator has been started
RotIdle == rotations = <<>> /\ gen = [line |-> 0, i |-> 0] /\ RotationIndexes = <<>>

\* pack has not been called
PackIdle == cube_id = None /\ unpacked = None

\* the canonicalizer has not been called and no tier loop is running
CanonIdle ==
    /\ canonical = <<>>
    /\ known_ids = {}
    /\ pollycubes = <<>>

\* no expand_cube generator has been started
ExpandIdle == new_cubes = <<>> /\ expanded = FALSE

\* no archive is being written or read
PcubeIdle ==
    packed = <<>> /\ pcube_stream = BytesIO /\ written = None /\ result = None

\* the cache directory without cache files
NoFiles == [n \in 3..MaxN |-> NoFile]

\* generate_polycubes has not been called
TierIdle ==
    /\ args = [n |-> 0, use_cache |-> FALSE]
    /\ cpu_count = 1
    /\ cache_dir = NoFiles
    /\ serial_cubes = None
    /\ multicore_cubes = None
    /\ serial_calls = <<>>
    /\ multicore_calls = <<>>

\* dispatch_tasks has not been called
DispatchIdle ==
    /\ task = "reverse_ints_task"
    /\ test_data = <<>>
    /\ pool_chunks = None
    /\ serial_results = None
    /\ multicore_results = None

\* no worker runs a chunk, nothing has been put on the logging queue and
\* logging_task has printed nothing
ProgressIdle ==
    /\ pool = <<>>
    /\ next_chunk = 0
    /\ queue = <<>>
    /\ status = <<>>
    /\ printed = None
    /\ returned_chunks = {}

RotInit ==
    /\ polycube \in Grids
    /\ impl = "root"
    /\ RotIdle
    /\ PackIdle
    /\ CanonIdle
    /\ ExpandIdle
    /\ PcubeIdle
    /\ TierIdle
    /\ DispatchIdle
    /\ ProgressIdle

\* next(generator): the inner generator yields its next rotation
RotYield ==
    /\ gen.line < YieldFromLines
    /\ gen.i + 1 \in DOMAIN inner_rotations(polycube, gen.line)
    /\ rotations' = Append(rotations, inner_rotations(polycube, gen.line)[gen.i + 1])
    /\ gen' = [gen EXCEPT !.i = @ + 1]
    /\ UNCHANGED <<polycube, impl, RotationIndexes, notRot>>

\* the inner generator is exhausted: all_rotations goes on to its next line,
\* or returns after the last one
RotNextLine ==
    /\ gen.line < YieldFromLines
    /\ gen.i + 1 \notin DOMAIN inner_rotations(polycube, gen.line)
    /\ gen' = [line |-> gen.line + 1, i |-> 0]
    /\ UNCHANGED <<polycube, impl, rotations, RotationIndexes, notRot>>

RotNext == RotYield \/ RotNextLine

SpecRot == RotInit /\ [][RotNext]_vars

RotExhausted == gen.line = YieldFromLines

(***************************************************************************)
(* SpecPack: pack a grid, then unpack the identifier (test_pack_symetric), *)
(* with either packing module.                                             *)
(***************************************************************************)
PackInit ==
    /\ polycube \in PackGrids
    /\ impl \in Implementations
    /\ RotIdle
    /\ PackIdle
    /\ CanonIdle
    /\ ExpandIdle
    /\ PcubeIdle
    /\ TierIdle
    /\ DispatchIdle
    /\ ProgressIdle

\* packed = pack(polycube), python/libraries/packing.py
PackCall ==
    /\ impl = "python"
    /\ cube_id = None
    /\ cube_id' = pack(polycube)
    /\ UNCHANGED <<polycube, impl, unpacked, notPack>>

\* unpacked = unpack(packed), python/libraries/packing.py
UnpackCall ==
    /\ impl = "python"
    /\ HasValue(cube_id)
    /\ unpacked = None
    /\ unpacked' = unpack(cube_id.val)
    /\ UNCHANGED <<polycube, impl, cube_id, notPack>>

\* packed = pack(polycube), libraries/packing.py
RootPackCall ==
    /\ impl = "root"
    /\ cube_id = None
    /\ cube_id' = root_pack(polycube)
    /\ UNCHANGED <<polycube, impl, unpacked, notPack>>

\* unpacked = unpack(packed), libraries/packing.py
RootUnpackCall ==
    /\ impl = "root"
    /\ HasValue(cube_id)
    /\ unpacked = None
    /\ unpacked' = root_unpack(cube_id.val)
    /\ UNCHANGED <<polycube, impl, cube_id, notPack>>

PackNext == PackCall \/ UnpackCall \/ RootPackCall \/ RootUnpackCall

SpecPack == PackInit /\ [][PackNext]_vars

(***************************************************************************)
(* SpecCanon: the canonicalizer is called on a polycube and then on one of *)
(* its 24 rotations, each time against an empty known set.                 *)
(***************************************************************************)
CanonInit ==
    /\ polycube \in Polycubes
    /\ impl \in Implementations
    /\ RotIdle
    /\ PackIdle
    /\ CanonIdle
    /\ ExpandIdle
    /\ PcubeIdle
    /\ TierIdle
    /\ DispatchIdle
    /\ ProgressIdle

\* get_canonical_packing(polycube, set()), python/cubes.py
CanonCall ==
    /\ impl = "python"
    /\ canonical = <<>>
    /\ canonical' = <<[arg |-> polycube, result |-> get_canonical_packing(polycube, {})]>>
    /\ UNCHANGED <<polycube, impl, known_ids, pollycubes, notCanon>>

\* get_canonical_packing(R, set()) for a rotation R of polycube
CanonRotationCall ==
    /\ impl = "python"
    /\ Len(canonical) = 1
    /\ \E R \in Range(all_rotations(polycube)) :
            canonical' = Append(canonical,
                [arg |-> R, result |-> get_canonical_packing(R, {})])
    /\ UNCHANGED <<polycube, impl, known_ids, pollycubes, notCanon>>

\* get_canoincal_packing(polycube), cubes.py
RootCanonCall ==
    /\ impl = "root"
    /\ canonical = <<>>
    /\ canonical' = <<[arg |-> polycube, result |-> get_canoincal_packing(polycube)]>>
    /\ UNCHANGED <<polycube, impl, known_ids, pollycubes, notCanon>>

\* get_canoincal_packing(R) for a rotation R of polycube
RootCanonRotationCall ==
    /\ impl = "root"
    /\ Len(canonical) = 1
    /\ \E R \in Range(all_rotations(polycube)) :
            canonical' = Append(canonical,
                [arg |-> R, result |-> get_canoincal_packing(R)])
    /\ UNCHANGED <<polycube, impl, known_ids, pollycubes, notCanon>>

CanonNext ==
    CanonCall \/ CanonRotationCall \/ RootCanonCall \/ RootCanonRotationCall

SpecCanon == CanonInit /\ [][CanonNext]_vars

(***************************************************************************)
(* SpecFast: all_rotations_fast is called on a grid, RotationIndexes       *)
(* holding what earlier calls have left there.                             *)
(***************************************************************************)
\* the shapes polycube.shape is permuted into by rotations
PermutedShapes(sh) ==
    {<<sh[1], sh[2], sh[3]>>, <<sh[1], sh[3], sh[2]>>, <<sh[2], sh[1], sh[3]>>,
     <<sh[2], sh[3], sh[1]>>, <<sh[3], sh[1], sh[2]>>, <<sh[3], sh[2], sh[1]>>}

\* RotationIndexes after all_rotations_fast has been called for the shapes of
\* called, and for no others
IndexesAfter(called) == [sh \in called |-> rotation_indexes(Ones(sh))]

\* the earlier calls: none, for the shape of p, for the other shapes its
\* rotations have, for all of these, for another shape
PriorCalls(p) ==
    {{}, {p.shape}, PermutedShapes(p.shape) \ {p.shape}, PermutedShapes(p.shape),
     {<<2, 2, 2>>}}

FastInit ==
    /\ polycube \in Grids
    /\ impl = "python"
    /\ rotations = <<>>
    /\ gen = [line |-> 0, i |-> 0]
    /\ \E called \in PriorCalls(polycube) : RotationIndexes = IndexesAfter(called)
    /\ PackIdle
    /\ CanonIdle
    /\ ExpandIdle
    /\ PcubeIdle
    /\ TierIdle
    /\ DispatchIdle
    /\ ProgressIdle

\* rotations = all_rotations_fast(polycube)
FastCall ==
    /\ \E call \in {all_rotations_fast_call(polycube, RotationIndexes)} :
          /\ rotations' = call.returned
          /\ RotationIndexes' = call.RotationIndexes
    /\ UNCHANGED <<polycube, impl, gen, notRot>>

FastNext == FastCall

SpecFast == FastInit /\ [][FastNext]_vars

(***************************************************************************)
(* SpecKnown: get_canonical_packing is called on a polycube and then on    *)
(* one of its 24 rotations, each time against the same known_ids, a set    *)
(* that holds identifiers of other free shapes and at most one identifier  *)
(* of the polycube's own.                                                  *)
(***************************************************************************)
\* identifiers of three free shapes: the cube, the domino and the L tromino,
\* the last two not in the orientation of their greatest packing
ForeignIds ==
    {pack(Ones(<<1, 1, 1>>)).val,
     pack(Ones(<<1, 1, 2>>)).val,
     pack([shape |-> <<1, 2, 2>>, data |-> <<1, 0, 1, 1>>]).val}

\* the packings of the 24 rotations of p
PackingsOfRotations(p) == {pack(R).val : R \in Range(all_rotations(p))}

\* the sets known_ids p is canonicalized against: the identifiers of the
\* other free shapes, alone or with the packing of p itself.  p running over
\* every orientation and the second call over every rotation of p, every
\* pair of a grid and a known identifier of its free shape occurs.
KnownSets(p) ==
    {foreign \cup own :
        foreign \in {ForeignIds \ rotated : rotated \in {PackingsOfRotations(p)}},
        own \in {{}, {pack(p).val}}}

KnownInit ==
    /\ polycube \in Polycubes
    /\ impl = "python"
    /\ RotIdle
    /\ PackIdle
    /\ canonical = <<>>
    /\ known_ids \in KnownSets(polycube)
    /\ pollycubes = <<>>
    /\ ExpandIdle
    /\ PcubeIdle
    /\ TierIdle
    /\ DispatchIdle
    /\ ProgressIdle

\* get_canonical_packing(polycube, known_ids)
KnownCall ==
    /\ canonical = <<>>
    /\ canonical' = <<[arg |-> polycube,
                       result |-> get_canonical_packing(polycube, known_ids)]>>
    /\ UNCHANGED <<polycube, impl, known_ids, pollycubes, notCanon>>

\* get_canonical_packing(R, known_ids) for a rotation R of polycube
KnownRotationCall ==
    /\ Len(canonical) = 1
    /\ \E R \in Range(all_rotations(polycube)) :
            canonical' = Append(canonical,
                [arg |-> R, result |-> get_canonical_packing(R, known_ids)])
    /\ UNCHANGED <<polycube, impl, known_ids, pollycubes, notCanon>>

KnownNext == KnownCall \/ KnownRotationCall

SpecKnown == KnownInit /\ [][KnownNext]_vars

(***************************************************************************)
(* SpecExpand: a caller draining the expand_cube generator of a polycube.  *)
(***************************************************************************)
ExpandInit ==
    /\ polycube \in Polycubes
    /\ impl \in Implementations
    /\ RotIdle
    /\ PackIdle
    /\ CanonIdle
    /\ ExpandIdle
    /\ PcubeIdle
    /\ TierIdle
    /\ DispatchIdle
    /\ ProgressIdle

\* next(generator), python/libraries/resizing.py: one more pass of the loop
ExpandYield ==
    /\ impl = "python"
    /\ ~expanded
    /\ Len(new_cubes) < expand_count(polycube)
    /\ new_cubes' = Append(new_cubes, expand_cube(polycube, Len(new_cubes) + 1))
    /\ UNCHANGED <<polycube, impl, expanded, notExpand>>

\* next(generator), libraries/cropping.py: one more pass of the loop
RootExpandYield ==
    /\ impl = "root"
    /\ ~expanded
    /\ Len(new_cubes) < expand_count(polycube)
    /\ new_cubes' = Append(new_cubes, root_expand_cube(polycube, Len(new_cubes) + 1))
    /\ UNCHANGED <<polycube, impl, expanded, notExpand>>

\* the loop over exp is exhausted: the generator returns
ExpandReturn ==
    /\ ~expanded
    /\ Len(new_cubes) = expand_count(polycube)
    /\ expanded' = TRUE
    /\ UNCHANGED <<polycube, impl, new_cubes, notExpand>>

ExpandNext == ExpandYield \/ RootExpandYield \/ ExpandReturn

SpecExpand == ExpandInit /\ [][ExpandNext]_vars

(***************************************************************************)
(* SpecPcube: a list of packed identifiers is written to a fresh stream,   *)
(* the stream is rewound and read back (test_pcube_integrity and           *)
(* test_pcube_compressed_integrity).                                       *)
(***************************************************************************)
\* the grids whose identifiers are archived: the single cube, the domino, the
\* L tromino and a full bar whose body takes two bytes
PcubeGrids ==
    {Ones(<<1, 1, 1>>), Ones(<<2, 1, 1>>), Ones(<<MaxBar, 1, 1>>),
     [shape |-> <<2, 2, 1>>, data |-> <<1, 1, 1, 0>>]}

PcubeIds == {pack(g).val : g \in PcubeGrids}

\* the lists handed to write: every list of at most MaxList identifiers, and
\* lists around the first length whose LEB128 count takes two bytes
PcubeLists ==
    UNION {[1..n -> PcubeIds] : n \in 0..MaxList}
        \cup {[k \in 1..n |-> pack(Ones(<<2, 1, 1>>)).val] :
                 n \in (vlq_continue_mask - 1)..(vlq_continue_mask + 1)}

\* the mtime values gzip.compress stamps into the member header
MTimes == {0, 1}

PcubeInit ==
    /\ polycube = Ones(<<1, 1, 1>>)
    /\ impl = "python"
    /\ RotIdle
    /\ PackIdle
    /\ CanonIdle
    /\ ExpandIdle
    /\ TierIdle
    /\ DispatchIdle
    /\ ProgressIdle
    /\ packed \in PcubeLists
    /\ pcube_stream = BytesIO
    /\ written = None
    /\ result = None

\* write(pcube_stream, orientation, packed, compression)
PcubeWrite ==
    /\ written = None
    /\ \E orientation \in OrientationValues, compression \in CompressionValues,
          mtime \in MTimes :
            /\ compression # GZIP_COMPRESSION => mtime = 0
            /\ pcube_stream' = write(pcube_stream, orientation, packed, compression, mtime)
            /\ written' = [orientation |-> orientation, compression |-> compression]
    /\ UNCHANGED <<polycube, impl, packed, result, notPcube>>

\* pcube_stream.seek(0)
PcubeSeek ==
    /\ written # None
    /\ pcube_stream.pos # 0
    /\ pcube_stream' = fp_seek0(pcube_stream)
    /\ UNCHANGED <<polycube, impl, packed, written, result, notPcube>>

\* result = read(pcube_stream)
PcubeRead ==
    /\ written # None
    /\ pcube_stream.pos = 0
    /\ result = None
    /\ \E ignore_orientation \in BOOLEAN :
            result' = read(pcube_stream, ignore_orientation)
    /\ UNCHANGED <<polycube, impl, packed, pcube_stream, written, notPcube>>

PcubeNext == PcubeWrite \/ PcubeSeek \/ PcubeRead

SpecPcube == PcubeInit /\ [][PcubeNext]_vars

(***************************************************************************)
(* SpecArchive: read is called on a stream that came from elsewhere: an    *)
(* archive whose six header bytes may be anything.                         *)
(***************************************************************************)
\* the first bytes of the stream: the magic string, the magic string with a
\* wrong last byte, with its byte pairs exchanged, cut short, or missing
Magics ==
    {magic_string,
     [magic_string EXCEPT ![4] = 237],
     <<236, 203, 236, 203>>,
     SubSeq(magic_string, 1, 3),
     <<>>}

\* the orientation and the compression byte of the stream
HeaderBytes == {0, 1, 2, 255}

\* the stream: magic, orientation byte o, compression byte c, then the count
\* and the blocks as write lays them out (compressed when c says so)
Archive(magic, o, c, polycubes, mtime) ==
    LET valid == write(BytesIO, 0, polycubes,
                       IF c = GZIP_COMPRESSION THEN GZIP_COMPRESSION ELSE 0, mtime)
    IN  [buf |-> magic \o <<o, c>> \o SubSeq(valid.buf, 7, Len(valid.buf)), pos |-> 0]

ArchiveInit ==
    /\ polycube = Ones(<<1, 1, 1>>)
    /\ impl = "python"
    /\ RotIdle
    /\ PackIdle
    /\ CanonIdle
    /\ ExpandIdle
    /\ TierIdle
    /\ DispatchIdle
    /\ ProgressIdle
    /\ packed \in UNION {[1..n -> PcubeIds] : n \in 0..MaxList}
    /\ \E magic \in Magics, o \in HeaderBytes, c \in HeaderBytes :
            pcube_stream = Archive(magic, o, c, packed, 0)
    /\ written = None
    /\ result = None

\* result = read(pcube_stream)
ArchiveRead ==
    /\ result = None
    /\ result' = read(pcube_stream, FALSE)
    /\ UNCHANGED <<polycube, impl, packed, pcube_stream, written, notPcube>>

\* result = read(pcube_stream, ignore_orientation=True)
ArchiveReadIgnoringOrientation ==
    /\ result = None
    /\ result' = read(pcube_stream, TRUE)
    /\ UNCHANGED <<polycube, impl, packed, pcube_stream, written, notPcube>>

ArchiveNext == ArchiveRead \/ ArchiveReadIgnoringOrientation

SpecArchive == ArchiveInit /\ [][ArchiveNext]_vars

(***************************************************************************)
(* SpecTier: cubes.py generate_polycubes is called for one tier in serial  *)
(* mode and in multicore mode, in a working directory that may hold the    *)
(* cache files of earlier runs.                                            *)
(***************************************************************************)
\* the identifiers of the free polycubes of n cells: the greatest packing
\* (python/libraries/packing.py) of every expansion of the tier below
RECURSIVE TierIds(_)
TierIds(n) ==
    IF n = 1 THEN {pack(Ones(<<1, 1, 1>>)).val}
    ELSE IF n = 2 THEN {pack(Ones(<<2, 1, 1>>)).val}
    ELSE UNION {
            {get_canonical_packing(expand_cube(unpack(base).val, k), {}).val.bytes :
                k \in 1..expand_count(unpack(base).val)} :
            base \in TierIds(n - 1)}

\* the grids of a set of identifiers, by descending identifier
RECURSIVE DescendingGrids(_)
DescendingGrids(ids) ==
    IF ids = {} THEN <<>>
    ELSE CHOOSE grids \in {<<unpack(greatest).val>> \o DescendingGrids(ids \ {greatest}) :
                               greatest \in {id \in ids : \A o \in ids : ~BytesGreater(o, id)}} : TRUE

\* the list of grids a cache file of tier n holds: one grid per free polycube
\* of n cells
TierList(n) == CHOOSE list \in {PyList(DescendingGrids(ids)) : ids \in {TierIds(n)}} : TRUE

\* <<TierList(1), ..., TierList(n)>>
RECURSIVE TierLists(_)
TierLists(n) == IF n = 0 THEN <<>> ELSE Append(TierLists(n - 1), TierList(n))

\* a cache file that holds no polycube
EmptyFile == PyList(<<>>)

\* the cache directories: every one of the tiers has no file, the file of its
\* polycubes or a file of no polycubes
CacheDirs(tiers) ==
    {[n \in tiers |-> IF n \in have THEN lists[n]
                      ELSE IF n \in empty THEN EmptyFile ELSE NoFile] :
        have \in SUBSET tiers, empty \in SUBSET tiers, lists \in {TierLists(MaxN)}}

TierInit ==
    /\ polycube = Ones(<<1, 1, 1>>)
    /\ impl = "root"
    /\ RotIdle
    /\ PackIdle
    /\ CanonIdle
    /\ ExpandIdle
    /\ PcubeIdle
    /\ DispatchIdle
    /\ ProgressIdle
    /\ cache_dir \in CacheDirs(3..MaxN)
    /\ args \in [n : 0..MaxN, use_cache : BOOLEAN]
    /\ cpu_count \in 1..MaxCpu
    /\ serial_cubes = None
    /\ multicore_cubes = None
    /\ serial_calls = <<>>
    /\ multicore_calls = <<>>

\* all_cubes = generate_polycubes(n, use_cache, enable_multicore=False)
GenerateSerial ==
    /\ serial_cubes = None
    /\ \E outcome \in generate_polycubes(args.n, args.use_cache, FALSE, cpu_count, cache_dir) :
            /\ serial_cubes' = outcome.result
            /\ cache_dir' = outcome.fs
            /\ serial_calls' = outcome.calls
    /\ UNCHANGED <<polycube, impl, args, cpu_count, multicore_cubes, multicore_calls,
                   notTier>>

\* all_cubes = generate_polycubes(n, use_cache, enable_multicore=True)
GenerateMulticore ==
    /\ multicore_cubes = None
    /\ \E outcome \in generate_polycubes(args.n, args.use_cache, TRUE, cpu_count, cache_dir) :
            /\ multicore_cubes' = outcome.result
            /\ cache_dir' = outcome.fs
            /\ multicore_calls' = outcome.calls
    /\ UNCHANGED <<polycube, impl, args, cpu_count, serial_cubes, serial_calls,
                   notTier>>

TierNext == GenerateSerial \/ GenerateMulticore

SpecTier == TierInit /\ [][TierNext]_vars

(***************************************************************************)
(* SpecDispatch: dispatch_tasks is called with a list-returning task and   *)
(* an item list, once serially and once on the pool (test_parallel.py).    *)
(***************************************************************************)
\* the list-returning tasks: the one of the test and the one of cubes.py
ListTasks == {"reverse_ints_task", "unpack_hashes_task"}

\* the identifiers unpack_hashes_task is given: those of the polycubes of up
\* to three cells, over and over
TestHashes ==
    <<PyBytes(root_pack(Ones(<<1, 1, 1>>)).val),
      PyBytes(root_pack(Ones(<<2, 1, 1>>)).val),
      PyBytes(root_pack(Ones(<<3, 1, 1>>)).val),
      PyBytes(root_pack([shape |-> <<2, 2, 1>>, data |-> <<1, 1, 1, 0>>]).val)>>

\* the n items a task is given: random.randint(0, 100) values for the test's
\* task (repeats included), identifiers for unpack_hashes_task
TestData(task_function, n) ==
    IF task_function = "reverse_ints_task"
    THEN [i \in 1..n |-> PyInt((37 * i * i) % 101)]
    ELSE [i \in 1..n |-> TestHashes[((i * i) % Len(TestHashes)) + 1]]

DispatchInit ==
    /\ polycube = Ones(<<1, 1, 1>>)
    /\ impl = "root"
    /\ RotIdle
    /\ PackIdle
    /\ CanonIdle
    /\ ExpandIdle
    /\ PcubeIdle
    /\ args = [n |-> 0, use_cache |-> FALSE]
    /\ cache_dir = NoFiles
    /\ serial_cubes = None
    /\ multicore_cubes = None
    /\ serial_calls = <<>>
    /\ multicore_calls = <<>>
    /\ cpu_count \in 1..MaxCpu
    /\ task \in ListTasks
    /\ \E n \in 0..MaxItems : test_data = TestData(task, n)
    /\ pool_chunks = None
    /\ serial_results = None
    /\ multicore_results = None
    /\ ProgressIdle

\* results = dispatch_tasks(task, test_data, False)
DispatchSerial ==
    /\ serial_results = None
    /\ serial_results' \in dispatch_tasks(task, PyList(test_data), FALSE, cpu_count)
    /\ UNCHANGED <<polycube, impl, task, test_data, pool_chunks, multicore_results,
                   notDispatch>>

\* results = dispatch_tasks(task, test_data, True)
DispatchMulticore ==
    /\ multicore_results = None
    /\ pool_chunks' = chunks(test_data, cpu_count)
    /\ multicore_results' \in dispatch_tasks(task, PyList(test_data), TRUE, cpu_count)
    /\ UNCHANGED <<polycube, impl, task, test_data, serial_results, notDispatch>>

DispatchNext == DispatchSerial \/ DispatchMulticore

SpecDispatch == DispatchInit /\ [][DispatchNext]_vars

(***************************************************************************)
(* SpecProgress: one multicore dispatch_tasks call of a task of cubes.py.  *)
(* The worker processes of the pool take the chunks in order, each as it   *)
(* becomes free, and put their progress messages on the logging queue;     *)
(* the logging process gets them one at a time.                            *)
(***************************************************************************)
\* the tasks of cubes.py, which report their progress
LoggingTasks == {"hash_cubes_task", "unpack_hashes_task"}

\* the base cubes hash_cubes_task is given: the polycubes of up to three
\* cells, over and over
TestCubes ==
    <<Ones(<<1, 1, 1>>), Ones(<<2, 1, 1>>), Ones(<<3, 1, 1>>),
      [shape |-> <<2, 2, 1>>, data |-> <<1, 1, 1, 0>>]>>

\* the n items the task is given
ProgressData(task_function, n) ==
    IF task_function = "hash_cubes_task"
    THEN [i \in 1..n |-> TestCubes[((i * i) % Len(TestCubes)) + 1]]
    ELSE TestData(task_function, n)

\* log_base = max(math.ceil(len(items) / 1000), 100)
log_base(len) == IF Ceil(len, 1000) > 100 THEN Ceil(len, 1000) ELSE 100

\* whether the task raises on the first item of its list, before its first
\* logging_queue.put: get_canoincal_packing on the first expansion
\* (cubes.py:49), unpack on the first identifier (cubes.py:23)
raises_on_first_item(task_function, items) ==
    /\ Len(items) > 0
    /\ IF task_function = "hash_cubes_task"
       THEN /\ expand_count(items[1]) > 0
            /\ Raised(get_canoincal_packing(root_expand_cube(items[1], 1)))
       ELSE Raised(unpack_calls(<<items[1]>>, 1)[1])

\* logging_queue.put((uid, done, total))
Message(uid, done, total) == [uid |-> uid, done |-> done, total |-> total]

\* the sums logging_task takes over status.items(): <<total_done, total_total>>
RECURSIVE status_totals(_, _)
status_totals(st, uids) ==
    IF uids = {} THEN <<0, 0>>
    ELSE LET uid == CHOOSE u \in uids : TRUE
             rest == status_totals(st, uids \ {uid})
         IN  <<rest[1] + st[uid][1], rest[2] + st[uid][2]>>

\* a line logging_task prints: end is "\n" for the completion line
Line(total_done, total_total, end) ==
    [type |-> "line", total_done |-> total_done, total_total |-> total_total, end |-> end]

\* logging_task has left its loop through "except:"
LoggingEnded == [type |-> "multithreaded logging ended"]

\* a worker that runs no chunk
Free == [chunk |-> 0, n |-> 0]

\* the pool is started with cpu_count workers and the empty queue; chunks is
\* built and handed to pool.map
ProgressInit ==
    /\ polycube = Ones(<<1, 1, 1>>)
    /\ impl = "root"
    /\ RotIdle
    /\ PackIdle
    /\ CanonIdle
    /\ ExpandIdle
    /\ PcubeIdle
    /\ args = [n |-> 0, use_cache |-> FALSE]
    /\ cache_dir = NoFiles
    /\ serial_cubes = None
    /\ multicore_cubes = None
    /\ serial_calls = <<>>
    /\ multicore_calls = <<>>
    /\ cpu_count \in 1..MaxCpu
    /\ task \in LoggingTasks
    /\ \E n \in 0..MaxItems : test_data = ProgressData(task, n)
    /\ pool_chunks = chunks(test_data, cpu_count)
    /\ serial_results = None
    /\ multicore_results = None
    /\ pool = [uid \in 1..cpu_count |-> Free]
    /\ next_chunk = 0
    /\ queue = <<>>
    /\ status = <<>>
    /\ printed = None
    /\ returned_chunks = {}

\* a free worker takes the next chunk of pool.map and calls the task on it
WorkerTakes ==
    \E uid \in DOMAIN pool :
        /\ pool[uid] = Free
        /\ next_chunk < Len(pool_chunks)
        /\ next_chunk' = next_chunk + 1
        /\ pool' = [pool EXCEPT ![uid] = [chunk |-> next_chunk + 1, n |-> 0]]
        /\ UNCHANGED <<polycube, impl, queue, status, printed, returned_chunks,
                       dispatchVars, notProgress>>

\* the task raises on its first item: nothing is put, the worker is free again
WorkerRaises ==
    \E uid \in DOMAIN pool :
        /\ pool[uid].chunk # 0
        /\ pool[uid].n = 0
        /\ raises_on_first_item(task, pool_chunks[pool[uid].chunk])
        /\ pool' = [pool EXCEPT ![uid] = Free]
        /\ UNCHANGED <<polycube, impl, next_chunk, queue, status, printed, returned_chunks,
                       dispatchVars, notProgress>>

\* the loop of the task reaches an item with n % log_base == 0 and puts
\* (uid, n, len(items)); it runs on to the next such item
WorkerPuts ==
    \E uid \in DOMAIN pool :
        /\ pool[uid].chunk # 0
        /\ \E len \in {Len(pool_chunks[pool[uid].chunk])} :
              /\ pool[uid].n < len
              /\ ~raises_on_first_item(task, pool_chunks[pool[uid].chunk])
              /\ queue' = Append(queue, Message(uid, pool[uid].n, len))
              /\ pool' = [pool EXCEPT ![uid].n = @ + log_base(len)]
        /\ UNCHANGED <<polycube, impl, next_chunk, status, printed, returned_chunks,
                       dispatchVars, notProgress>>

\* the loop of the task is over: it puts (uid, n, len(items)) with n = len(items)
\* and returns
WorkerReturns ==
    \E uid \in DOMAIN pool :
        /\ pool[uid].chunk # 0
        /\ \E len \in {Len(pool_chunks[pool[uid].chunk])} :
              /\ pool[uid].n >= len
              /\ queue' = Append(queue, Message(uid, len, len))
        /\ returned_chunks' = returned_chunks \cup {pool[uid].chunk}
        /\ pool' = [pool EXCEPT ![uid] = Free]
        /\ UNCHANGED <<polycube, impl, next_chunk, status, printed,
                       dispatchVars, notProgress>>

\* one pass of the loop of logging_task: queue.get(), status[uid] = (done,
\* total), the sums, and the line printed; status = {} after the completion
\* line; 0 / 0 in the line ends the loop through "except:"
LoggingGets ==
    /\ queue # <<>>
    /\ printed # LoggingEnded
    /\ queue' = Tail(queue)
    /\ \E got \in {Head(queue)} :
        \E updated \in {[uid \in DOMAIN status \cup {got.uid} |->
                            IF uid = got.uid THEN <<got.done, got.total>> ELSE status[uid]]} :
        \E totals \in {status_totals(updated, DOMAIN updated)} :
            IF totals[2] = 0
            THEN printed' = LoggingEnded /\ status' = updated
            ELSE IF totals[1] = totals[2]
            THEN printed' = Line(totals[1], totals[2], "\n") /\ status' = <<>>
            ELSE printed' = Line(totals[1], totals[2], "") /\ status' = updated
    /\ UNCHANGED <<polycube, impl, pool, next_chunk, returned_chunks,
                   dispatchVars, notProgress>>

ProgressNext ==
    WorkerTakes \/ WorkerRaises \/ WorkerPuts \/ WorkerReturns \/ LoggingGets

SpecProgress == ProgressInit /\ [][ProgressNext]_vars

(***************************************************************************)
(* SpecLoop: the tier loop of python/cubes.py generate_polycubes(n): every *)
(* expansion of every polycube of tier n - 1 is canonicalized against      *)
(* known_ids and the identifier returned is added to known_ids.  The bases *)
(* and their expansions are taken in any order.                            *)
(***************************************************************************)
\* list(expand_cube(base_cube)) for the first b cubes of base_cubes, one list
\* after the other
RECURSIVE expansions(_, _)
expansions(base_cubes, b) ==
    IF b = 0 THEN <<>>
    ELSE expansions(base_cubes, b - 1)
            \o [k \in 1..expand_count(base_cubes[b]) |-> expand_cube(base_cubes[b], k)]

\* pollycubes = generate_polycubes(n - 1, use_cache): the grids unpacked from
\* the identifiers of tier n - 1; new_cubes: what the expand_cube generators
\* of these bases yield
LoopInit ==
    /\ polycube = Ones(<<1, 1, 1>>)
    /\ impl = "python"
    /\ RotIdle
    /\ PackIdle
    /\ expanded = FALSE
    /\ PcubeIdle
    /\ DispatchIdle
    /\ ProgressIdle
    /\ \E n \in 3..MaxN :
          /\ pollycubes = DescendingGrids(TierIds(n - 1))
          /\ new_cubes = expansions(pollycubes, Len(pollycubes))
          /\ args = [n |-> n, use_cache |-> FALSE]
    /\ cpu_count = 1
    /\ cache_dir = NoFiles
    /\ serial_cubes = None
    /\ multicore_cubes = None
    /\ serial_calls = <<>>
    /\ multicore_calls = <<>>
    /\ canonical = <<>>
    /\ known_ids = {}

\* cube_id = get_canonical_packing(new_cube, known_ids); known_ids.add(cube_id)
\* for a new_cube of expand_cube(base_cube), base_cube in pollycubes
LoopBody ==
    \E new \in Range(new_cubes) :
        \E returned \in {get_canonical_packing(new, known_ids)} :
            /\ HasValue(returned)
            /\ known_ids' = known_ids \cup {returned.val.bytes}
            /\ canonical' = <<>>
            /\ UNCHANGED <<polycube, impl, pollycubes, notCanon>>

LoopNext == LoopBody

SpecLoop == LoopInit /\ [][LoopNext]_vars

\* item counts at which a chunk would exceed 10000 items without the cap
LongLists(cores) == {MaxChunk * cores - 1, MaxChunk * cores, MaxChunk * cores + 1,
                     4 * MaxChunk * cores}

\* clamp(x, lo, hi)
clamp(x, lo, hi) == IF x < lo THEN lo ELSE IF x > hi THEN hi ELSE x

\* the first c chunks, concatenated in order
RECURSIVE Concatenated(_, _)
Concatenated(chunked, c) ==
    IF c = 0 THEN <<>> ELSE Concatenated(chunked, c - 1) \o chunked[c]

(***************************************************************************)
(* Claims about the rotator.                                               *)
(***************************************************************************)
AllDistinctDims(sh) == sh[1] # sh[2] /\ sh[2] # sh[3] /\ sh[1] # sh[3]
AllEqualDims(sh) == sh[1] = sh[2] /\ sh[2] = sh[3]
UnitSides(sh) == Cardinality({ax \in 1..3 : sh[ax] = 1})

\* the count spec P4 gives for a shape
CountByShape(sh) ==
    IF AllDistinctDims(sh) THEN 4 ELSE IF AllEqualDims(sh) THEN 24 ELSE 8

\* C7: once all_rotations(P) is drained, every grid R it yielded has the same
\* set of rotations as P: all_rotations(R) yields exactly the grids that
\* all_rotations(P) yielded.
RotationClosure ==
    RotExhausted =>
        \A R \in Range(rotations) : Range(all_rotations(R)) = Range(rotations)

\* C7 witness: the generator of a polycube with 24 pairwise different
\* rotations has been drained.
RotationClosureWitness ==
    /\ RotExhausted
    /\ IsPolycube(polycube)
    /\ Cardinality(Range(rotations)) = 24

\* C8 as stated: the set of distinct rotations of a polycube has 4, 8 or 24
\* members according to how many of its dimensions are equal.
DistinctRotationsByShape ==
    (RotExhausted /\ IsPolycube(polycube)) =>
        Cardinality(Range(rotations)) = CountByShape(polycube.shape)

\* C8 amended: of the 24 grids all_rotations yields, counted separately, exactly
\* 4 (all sides different), 8 (exactly two equal) or 24 (all equal) have the
\* descending-sorted shape; all_rotations_fast returns at most that many grids,
\* exactly that many unless two sides are 1, and the distinct grids among them
\* are at most that many.
SortedShapeRotationCount ==
    RotExhausted =>
        LET canon == get_canon_shape(polycube)
            hits  == {k \in DOMAIN rotations : rotations[k].shape = canon}
            fast  == all_rotations_fast(polycube)
            want  == CountByShape(polycube.shape)
        IN  /\ Cardinality(hits) = want
            /\ Len(fast) <= want
            /\ UnitSides(polycube.shape) <= 1 => Len(fast) = want
            /\ Cardinality(Range(fast)) <= want
            /\ Cardinality({rotations[k] : k \in hits}) <= want

\* C8 witness: a drained generator of a polycube whose three sides differ and
\* whose 24 rotations are pairwise different grids, 4 of them sorted-shaped.
SortedShapeRotationWitness ==
    /\ RotExhausted
    /\ IsPolycube(polycube)
    /\ AllDistinctDims(polycube.shape)
    /\ Cardinality(Range(rotations)) = 24
    /\ Len(all_rotations_fast(polycube)) = 4

\* C9: when the all_rotations generator returns it has yielded exactly 24
\* grids, equal grids counted separately.
RotationQuantity == RotExhausted => Len(rotations) = 24

\* C9 witness: a drained generator whose 24 yields repeat a grid.
RotationQuantityWitness ==
    /\ RotExhausted
    /\ Len(rotations) = 24
    /\ \E i, j \in DOMAIN rotations : i # j /\ rotations[i] = rotations[j]

(***************************************************************************)
(* Claims about the grid codec.                                            *)
(***************************************************************************)
\* C6: for a grid whose sides are in 1..255, unpack applied to pack's
\* identifier returns a grid with the shape of the packed grid and the same
\* value in every cell (both packing modules).
PackUnpackRoundTrip ==
    (unpacked # None /\ \A ax \in 1..3 : polycube.shape[ax] \in 1..MaxByte) =>
        /\ HasValue(unpacked)
        /\ unpacked.val.shape = polycube.shape
        /\ DOMAIN unpacked.val.data = DOMAIN polycube.data
        /\ \A i \in DOMAIN polycube.data : unpacked.val.data[i] = polycube.data[i]

\* C6 witness: python's unpack has returned for a bar of 255 cells with
\* filled and empty cells, whose identifier has a body of 32 bytes.
PackUnpackWitness ==
    /\ impl = "python"
    /\ HasValue(unpacked)
    /\ polycube.shape = <<1, 1, 255>>
    /\ polycube.data[100] = 1 /\ polycube.data[101] = 0
    /\ Len(cube_id.val) = 3 + 32

\* a side of the grid is 0 or more than 255
SideOutOfRange(g) == \E ax \in 1..3 : g.shape[ax] = 0 \/ g.shape[ax] > 255

\* id is the three shape bytes of g followed by its cells packed eight to a
\* byte, first cell in the lowest bit
ShapeThenPackedBody(id, g) ==
    /\ Len(id) = 3 + (Vol(g.shape) + 7) \div 8
    /\ \A ax \in 1..3 : id[ax] = g.shape[ax]
    /\ \A j \in 1..((Vol(g.shape) + 7) \div 8) :
           \A b \in 0..7 :
               (id[3 + j] \div Pow2(b)) % 2 =
                   (IF 8 * (j - 1) + b + 1 <= Vol(g.shape) /\ g.data[8 * (j - 1) + b + 1] # 0
                    THEN 1 ELSE 0)

\* C16: a finished call of pack (either module) has failed when a side of the
\* grid is 0 or more than 255, and has otherwise returned the three shape
\* bytes followed by the packed body.
PackFailsOutOfRange ==
    cube_id # None =>
        IF SideOutOfRange(polycube) THEN Raised(cube_id)
        ELSE HasValue(cube_id) /\ ShapeThenPackedBody(cube_id.val, polycube)

\* C16 witness: pack of python/libraries/packing.py has returned for an array
\* with a side of 0.
PackFailsWitness ==
    /\ impl = "python"
    /\ polycube.shape = <<1, 0, 2>>
    /\ HasValue(cube_id)

\* what python/libraries/packing.py does: pack fails exactly when a side is
\* more than 255, and otherwise returns shape bytes and packed body, also for
\* a side of 0
PythonPackFailsAbove255 ==
    (impl = "python" /\ cube_id # None) =>
        IF \E ax \in 1..3 : polycube.shape[ax] > 255 THEN cube_id = Raise(OverflowError)
        ELSE HasValue(cube_id) /\ ShapeThenPackedBody(cube_id.val, polycube)

\* what libraries/packing.py does: pack fails exactly when a side is more than
\* 255, and otherwise returns one byte per cell followed by the shape bytes
RootPackBodyThenShape ==
    (impl = "root" /\ cube_id # None) =>
        IF \E ax \in 1..3 : polycube.shape[ax] > 255 THEN cube_id = Raise(OverflowError)
        ELSE /\ HasValue(cube_id)
             /\ Len(cube_id.val) = Vol(polycube.shape) + 3
             /\ \A i \in 1..Vol(polycube.shape) : cube_id.val[i] = polycube.data[i]
             /\ \A ax \in 1..3 : cube_id.val[Vol(polycube.shape) + ax] = polycube.shape[ax]

(***************************************************************************)
(* Claims about the canonicalizer.                                         *)
(***************************************************************************)
\* the identifiers the running implementation's pack gives the 24 rotations
RotationPackings(p) ==
    {(IF impl = "python" THEN pack(R) ELSE root_pack(R)).val :
        R \in Range(all_rotations(p))}

\* the greatest of a non-empty set of identifiers
Greatest(ids) == CHOOSE m \in ids : \A o \in ids : ~BytesGreater(o, m)

\* the canonicalizer returned the same identifier for the polycube and for
\* its rotation, the greatest packing of the 24 rotations
SameGreatestPacking ==
    /\ HasValue(canonical[1].result)
    /\ HasValue(canonical[2].result)
    /\ canonical[1].result.val = canonical[2].result.val
    /\ canonical[1].result.val = PyBytes(Greatest(RotationPackings(polycube)))

\* C4: once the canonicalizer has been called on a polycube P and on a
\* rotation R of P, both calls have returned the same identifier, the greatest
\* among the packings of the 24 rotations (either cubes.py).
CanonicalStability == Len(canonical) = 2 => SameGreatestPacking

\* C4 for python/cubes.py alone: get_canonical_packing against an empty known
\* set returns the same greatest packing for P and for R.
PythonCanonicalStability ==
    (impl = "python" /\ Len(canonical) = 2) => SameGreatestPacking

\* C4 witness: get_canonical_packing has returned for a polycube with 24
\* different rotations and for a rotation of it that is another grid.
CanonicalStabilityWitness ==
    /\ impl = "python"
    /\ Len(canonical) = 2
    /\ canonical[2].arg # polycube
    /\ Cardinality(Range(all_rotations(polycube))) = 24
    /\ SameGreatestPacking

\* C18: once get_canonical_packing has been called against the same known_ids
\* (at most one identifier per free shape) on a polycube P and on a rotation Q
\* of P, both calls have returned the same value: the known identifier of the
\* shape if there is one, otherwise the greatest packing of the 24 rotations.
KnownCanonicalStability ==
    Len(canonical) = 2 =>
        \A packings \in {RotationPackings(polycube)} :
            Cardinality(known_ids \cap packings) <= 1 =>
                /\ HasValue(canonical[1].result)
                /\ HasValue(canonical[2].result)
                /\ canonical[1].result.val = canonical[2].result.val
                /\ canonical[2].result.val.pytype = "bytes"
                /\ IF known_ids \cap packings # {}
                   THEN canonical[2].result.val.bytes \in known_ids \cap packings
                   ELSE canonical[2].result.val.bytes = Greatest(packings)

\* C18 witness: known_ids holds an identifier of the shape that is not its
\* greatest packing, and the second call, on a rotation Q whose own packing is
\* another one, has returned it.
KnownCanonicalWitness ==
    /\ Len(canonical) = 2
    /\ HasValue(canonical[2].result)
    /\ canonical[2].result.val.bytes = pack(polycube).val
    /\ canonical[2].result.val.bytes # pack(canonical[2].arg).val
    /\ \E packings \in {RotationPackings(polycube)} :
          /\ known_ids \cap packings = {pack(polycube).val}
          /\ Greatest(packings) # pack(polycube).val

\* C20: the greatest packing of the grids all_rotations_fast has returned for
\* a grid equals the greatest packing of the 24 grids of all_rotations,
\* whatever RotationIndexes held before the call.
FastGreatestIsGreatest ==
    rotations # <<>> =>
        Greatest({pack(R).val : R \in Range(rotations)})
            = Greatest({pack(R).val : R \in Range(all_rotations(polycube))})

\* C20 witness: all_rotations_fast has returned 4 grids for a polycube with 24
\* different rotations, from the indexes an earlier call had stored; the
\* polycube itself is not among them.
FastGreatestWitness ==
    /\ Len(rotations) = 4
    /\ polycube \notin Range(rotations)
    /\ IsPolycube(polycube)
    /\ Cardinality(Range(all_rotations(polycube))) = 24
    /\ DOMAIN RotationIndexes = PermutedShapes(polycube.shape)

\* the call leaves in RotationIndexes what it held, and the indexes of the
\* shape of the grid
FastCallStoresIndexes ==
    rotations # <<>> =>
        /\ polycube.shape \in DOMAIN RotationIndexes
        /\ \A sh \in DOMAIN RotationIndexes :
               RotationIndexes[sh] = rotation_indexes(Ones(sh))

\* cubes.py: get_canoincal_packing raises TypeError on every polycube
RootCanonicalizerRaises ==
    impl = "root" =>
        \A k \in DOMAIN canonical : canonical[k].result = Raise(TypeError)

(***************************************************************************)
(* Claims about the expander.                                              *)
(***************************************************************************)
\* C10: every grid expand_cube has yielded for a face-connected polycube of k
\* cells has exactly k + 1 filled cells and is face-connected (either
\* expander).
ExpandAddsOneConnectedCell ==
    \A k \in DOMAIN new_cubes :
        /\ Cardinality(FilledCells(new_cubes[k])) = Cardinality(FilledCells(polycube)) + 1
        /\ FaceConnected(new_cubes[k])

\* C10 witness: python's expand_cube has returned after yielding for a polycube
\* of five cells in a box with three different sides, fix_axis having
\* rotated one of the yielded grids.
ExpandWitness ==
    /\ impl = "python"
    /\ expanded
    /\ Cardinality(FilledCells(polycube)) = 5
    /\ AllDistinctDims(polycube.shape)
    /\ \E k \in DOMAIN new_cubes :
            new_cubes[k] # root_expand_cube(polycube, k)

\* C11: every grid expand_cube has yielded is cropped: each of its six
\* bounding-box faces holds a filled cell, with cropping.py's expand_cube and
\* with resizing.py's, which applies fix_axis after crop_cube.
ExpandedGridsCropped ==
    \A k \in DOMAIN new_cubes : Cropped(new_cubes[k])

\* C11 witness: resizing.py's expand_cube has returned; one grid it yielded
\* has a larger box than the polycube (crop_cube kept a slice of the padding),
\* one has the same cells per side, and fix_axis rotated one.
ExpandedGridsCroppedWitness ==
    /\ impl = "python"
    /\ expanded
    /\ \E k \in DOMAIN new_cubes : Vol(new_cubes[k].shape) > Vol(polycube.shape)
    /\ \E k \in DOMAIN new_cubes : Vol(new_cubes[k].shape) = Vol(polycube.shape)
    /\ \E k \in DOMAIN new_cubes : new_cubes[k] # root_expand_cube(polycube, k)

(***************************************************************************)
(* Claims about the archive.                                               *)
(***************************************************************************)
\* read returned the list that was written
ReadBackEqual == HasValue(result) /\ result.val.polycubes = packed

\* C5: once the archive written from any list of identifiers, the empty list
\* included, has been read back, read has returned a list equal to the one
\* written, with and without gzip.
ArchiveRoundTrip == result # None => ReadBackEqual

\* C5 for the lists that are not empty: they are read back as written.
NonEmptyArchiveRoundTrip == (result # None /\ packed # <<>>) => ReadBackEqual

\* the archive of the empty list is not read back: read raises IndexError
EmptyArchiveRaises ==
    (result # None /\ packed = <<>>) => result = Raise(IndexError)

\* C5 witness: a gzip archive of two different identifiers, one with a
\* two-byte body, has been read back as written.
ArchiveRoundTripWitness ==
    /\ ReadBackEqual
    /\ written.compression = GZIP_COMPRESSION
    /\ Len(packed) = 2
    /\ packed[1] # packed[2]
    /\ Len(packed[2]) = 5

\* the header of the stream: its first four bytes are not CB EC CB EC, its
\* orientation byte is not 0 or 1, its compression byte is not 0 or 1
BadMagic ==
    Len(pcube_stream.buf) < 4 \/ SubSeq(pcube_stream.buf, 1, 4) # <<203, 236, 203, 236>>
BadOrientation == Len(pcube_stream.buf) >= 5 /\ pcube_stream.buf[5] \notin {0, 1}
BadCompression == Len(pcube_stream.buf) >= 6 /\ pcube_stream.buf[6] \notin {0, 1}

\* C15 as stated: every call of read on an archive with a wrong magic, a wrong
\* orientation byte or a wrong compression byte raises.
ReaderRejectsBadHeader ==
    [][(/\ ArchiveRead \/ ArchiveReadIgnoringOrientation
        /\ BadMagic \/ BadOrientation \/ BadCompression)
           => Raised(result')]_vars

\* C15 amended: every call of read on an archive with a wrong magic or a wrong
\* compression byte raises ValueError, and so does every call without
\* ignore_orientation on an archive with a wrong orientation byte.
ReaderRejectsBadHeaderUnlessIgnored ==
    [][/\ (/\ ArchiveRead \/ ArchiveReadIgnoringOrientation
           /\ BadMagic \/ BadCompression) => result' = Raise(ValueError)
       /\ (ArchiveRead /\ BadOrientation) => result' = Raise(ValueError)]_vars

\* C15 witness: read has raised ValueError on an archive of two polycubes
\* whose magic and compression byte are right and whose orientation byte is 2.
ReaderRejectsWitness ==
    /\ ~BadMagic /\ ~BadCompression /\ BadOrientation
    /\ pcube_stream.buf[5] = 2
    /\ Len(packed) = 2
    /\ result = Raise(ValueError)

\* what read does with ignore_orientation: an archive with orientation byte 2
\* and nothing else wrong is read, as unsorted
IgnoredOrientationIsRead ==
    [][(/\ ArchiveReadIgnoringOrientation
        /\ ~BadMagic /\ ~BadCompression /\ BadOrientation
        /\ packed # <<>>)
           => result' = Returned([orientation |-> 0, polycubes |-> packed])]_vars

(***************************************************************************)
(* Claims about the tier engine of cubes.py.                               *)
(***************************************************************************)
\* the number of free polycubes of 1..10 cells (OEIS A000162)
A000162 == <<1, 1, 2, 8, 29, 166, 1023, 6922, 48311, 346543>>

\* the calls of generate_polycubes that have finished
Finished == {cubes \in {serial_cubes, multicore_cubes} : cubes # None}

\* C1: a finished call generate_polycubes(n) with n in 1..10 (no cache in
\* use) has returned a list of as many polycubes as A000162 gives for n.
TierCount ==
    (args.n \in DOMAIN A000162 /\ ~args.use_cache) =>
        \A cubes \in Finished :
            HasValue(cubes) /\ PyLen(cubes.val) = A000162[args.n]

\* C1 witness: the serial call for tier 3, with no cache in use, has finished
\* by raising.
TierCountWitness ==
    args.n = 3 /\ ~args.use_cache /\ Raised(serial_cubes)

\* C2: a finished call has returned a tier in which no identifier occurs
\* twice, in serial and in multicore mode.
TierIdentifiersDistinct ==
    \A cubes \in Finished :
        /\ HasValue(cubes)
        /\ cubes.val.pytype = "list"
        /\ \A i, j \in DOMAIN cubes.val.list :
               root_pack(cubes.val.list[i]) = root_pack(cubes.val.list[j]) => i = j

\* C2 witness: the multicore call for tier 4 on MaxCpu cores has finished by
\* raising, no cache file having answered it.
TierIdentifiersWitness ==
    /\ args.n = 4
    /\ cpu_count = MaxCpu
    /\ ~(args.use_cache /\ cache_exists(4, cache_dir))
    /\ Raised(multicore_cubes)

\* C3: once the serial and the multicore call for the same n have finished,
\* both have returned, and the same set of polycubes.
ParallelEquivalence ==
    (serial_cubes # None /\ multicore_cubes # None) =>
        /\ HasValue(serial_cubes) /\ HasValue(multicore_cubes)
        /\ Range(serial_cubes.val.list) = Range(multicore_cubes.val.list)

\* C3 witness: the serial and the multicore call for the same n >= 3 have both
\* finished, and both by raising.
ParallelEquivalenceWitness ==
    args.n >= 3 /\ Raised(serial_cubes) /\ Raised(multicore_cubes)

\* what cubes.py does instead from tier 3 on when no cache file answers the
\* call and no cache file is empty: every finished call has raised the TypeError of get_canoincal_packing
TierRaisesTypeError ==
    (/\ args.n >= 3
     /\ ~(args.use_cache /\ cache_exists(args.n, cache_dir))
     /\ \A k \in DOMAIN cache_dir : cache_dir[k] # EmptyFile) =>
        \A cubes \in Finished : cubes = Raise(TypeError)

\* python/cubes.py: the greatest-packing identifiers of tier n are as many as
\* A000162 gives
PythonTierCount ==
    args.n \in 1..MaxN => Cardinality(TierIds(args.n)) = A000162[args.n]

\* C19: in the tier loop every member of known_ids is the greatest packing of
\* the 24 rotations of its own grid, so no two members are rotations of each
\* other, whatever the order the bases and their expansions are taken in.
KnownIdsAreGreatest ==
    pollycubes # <<>> =>
        \A id \in known_ids :
            /\ HasValue(unpack(id))
            /\ \A packings \in {PackingsOfRotations(unpack(id).val)} :
                  /\ id = Greatest(packings)
                  /\ known_ids \cap packings = {id}

\* C19 witness: the loop of tier 4 has inserted the identifiers of all eight
\* tetracubes; one expansion of a base is not in the orientation of its
\* identifier, which the loop found among its rotations.
KnownIdsWitness ==
    /\ args.n = 4
    /\ Cardinality(known_ids) = A000162[4]
    /\ \E new \in Range(new_cubes) :
          /\ pack(new).val \notin known_ids
          /\ get_canonical_packing(new, known_ids).val.bytes \in known_ids

\* the cache calls and the dispatches among the calls of a trace
CacheCalls(calls) ==
    {i \in DOMAIN calls : calls[i].fn \in {"get_cache", "save_cache"}}
Dispatches(calls) ==
    {i \in DOMAIN calls : calls[i].fn \in {"hash_cubes_task", "unpack_hashes_task"}}

\* a call generate_polycubes(args.n, args.use_cache, ...) that returned
\* returned with calls as its trace, is as C13 says
CacheUseAsStated(returned, calls) ==
    /\ (args.n >= 3 /\ args.use_cache /\ cache_dir[args.n] # NoFile) =>
            /\ returned = Returned(cache_dir[args.n])
            /\ calls = <<Call("get_cache", args.n)>>
            /\ cache_dir' = cache_dir
    /\ ~args.use_cache =>
            /\ CacheCalls(calls) = {}
            /\ cache_dir' = cache_dir

\* C13: a call of generate_polycubes(n, use_cache=True) with n >= 3 that finds
\* the cache file of tier n returns the contents of the file, makes no
\* dispatch and no other cache call (for tier n or a lower tier) and leaves
\* every cache file as it was; a call with use_cache=False makes no cache
\* call and leaves every cache file as it was.
CacheHitOnlyLoads ==
    [][/\ GenerateSerial => CacheUseAsStated(serial_cubes', serial_calls')
       /\ GenerateMulticore => CacheUseAsStated(multicore_cubes', multicore_calls')]_vars

\* C13 witness: the serial call for tier 4 with use_cache has returned the
\* eight polycubes of the cache file of tier 4 after one get_cache call, no
\* file of tier 3 existing.
CacheHitWitness ==
    /\ args = [n |-> 4, use_cache |-> TRUE]
    /\ cache_dir[3] = NoFile
    /\ serial_calls = <<Call("get_cache", 4)>>
    /\ serial_cubes = Returned(cache_dir[4])
    /\ PyLen(cache_dir[4]) = 8

\* a call generate_polycubes(args.n, args.use_cache, ...) that finished with
\* returned, with calls as its trace, is as C14 says
TierWriteAsStated(returned, calls) ==
    /\ \A i \in DOMAIN calls :
           calls[i].fn = "save_cache" =>
               /\ i >= 3
               /\ calls[i - 2] = Call("hash_cubes_task", calls[i].n)
               /\ calls[i - 1] = Call("unpack_hashes_task", calls[i].n)
    /\ (Raised(returned) /\ calls # <<>>) =>
           LET failed == calls[Len(calls)]
           IN  /\ failed.fn \in {"hash_cubes_task", "unpack_hashes_task"}
               /\ \A k \in failed.n..args.n :
                      /\ cache_dir'[k] = cache_dir[k]
                      /\ args.use_cache => cache_dir'[k] = NoFile
                      /\ \A i \in DOMAIN calls : calls[i] # Call("save_cache", k)

BothDispatched == serial_results # None /\ multicore_results # None

\* C17: in multicore mode the items are split into contiguous chunks of
\* clamp(ceil(|items| / P), 32, 10000) items, only the last chunk possibly
\* smaller (and never empty); the chunks in order concatenate to the item
\* list; an empty list gives no chunks.
ChunksPartitionItems ==
    multicore_results # None =>
        LET size == clamp(Ceil(Len(test_data), cpu_count), 32, 10000)
        IN  /\ \A c \in 1..(Len(pool_chunks) - 1) : Len(pool_chunks[c]) = size
            /\ Len(pool_chunks) > 0 => Len(pool_chunks[Len(pool_chunks)]) \in 1..size
            /\ Concatenated(pool_chunks, Len(pool_chunks)) = test_data
            /\ test_data = <<>> => pool_chunks = <<>>
            /\ \A len \in LongLists(cpu_count) :
                   chunk_size(len, cpu_count) = clamp(Ceil(len, cpu_count), 32, 10000)

\* C17 witness: the pool has been given three chunks, the last one smaller
\* than the others.
ChunksPartitionWitness ==
    /\ multicore_results # None
    /\ Len(pool_chunks) = 3
    /\ Len(pool_chunks[3]) < Len(pool_chunks[1])
    /\ Len(pool_chunks[1]) = MinChunk

\* logging_task has printed its completion line last
CompletionReported == printed.type = "line" /\ printed.end = "\n"

\* C21: when logging_task reports completion during a multicore dispatch,
\* every chunk of the dispatch has put its final progress message and the
\* total reported is the number of items of the dispatch, whatever the
\* interleaving of the workers and whichever worker ran which chunks.
CompletionAfterAllFinalMessages ==
    CompletionReported =>
        /\ returned_chunks = 1..Len(pool_chunks)
        /\ printed.total_total = Len(test_data)

\* C21 witness: completion has been reported with the total of one chunk
\* while another worker is still in its chunk and a third chunk is not taken.
CompletionReportedEarlyWitness ==
    /\ CompletionReported
    /\ printed.total_total = Len(pool_chunks[1])
    /\ printed.total_total < Len(test_data)
    /\ \E uid \in DOMAIN pool : pool[uid].chunk # 0
    /\ next_chunk < Len(pool_chunks)

\* the weaker reading, which fails as well: once every chunk has returned and
\* every message has been got, the completion line printed last gives the
\* number of items of the dispatch
LastCompletionGivesAllItems ==
    (CompletionReported /\ returned_chunks = 1..Len(pool_chunks) /\ queue = <<>>) =>
        printed.total_total = Len(test_data)

\* what logging_task does report: a completion line gives equal sums over the
\* workers it has heard from since its last completion line, each of which
\* has returned from a chunk; a dispatch of one chunk is reported as claimed
CompletionOfWorkersHeardFrom ==
    CompletionReported =>
        /\ printed.total_done = printed.total_total
        /\ printed.total_total \in 1..Len(test_data)
        /\ returned_chunks # {}
        /\ Len(pool_chunks) = 1 =>
              /\ returned_chunks = {1}
              /\ printed.total_total = Len(test_data)

\* hash_cubes_task raises before its first put: logging_task prints nothing
HashTaskReportsNothing ==
    task = "hash_cubes_task" => (queue = <<>> /\ printed = None /\ returned_chunks = {})

\* C12: once the serial and the multicore dispatch of a list-returning task
\* over the same items have finished, the multicore dispatch has returned the
\* list the serial one returned: the per-chunk results merged in input order.
MulticoreMergesInInputOrder ==
    BothDispatched =>
        /\ HasValue(serial_results) /\ HasValue(multicore_results)
        /\ multicore_results.val.list = serial_results.val.list

\* C12 witness: both dispatches of unpack_hashes_task have returned, the
\* multicore one having handed more than one chunk to the pool, and the two
\* lists differ.
MulticoreMergesWitness ==
    /\ BothDispatched
    /\ task = "unpack_hashes_task"
    /\ Len(pool_chunks) > 1
    /\ HasValue(serial_results) /\ HasValue(multicore_results)
    /\ multicore_results.val.list # serial_results.val.list

\* what dispatch_tasks does: the test's task, which reverses its chunk, has the
\* same result either way whenever there is an item
ReverseTaskMergesInInputOrder ==
    (BothDispatched /\ task = "reverse_ints_task") =>
        /\ HasValue(serial_results) /\ HasValue(multicore_results)
        /\ multicore_results.val.list = serial_results.val.list

\* what dispatch_tasks does: the results of the chunks are merged last chunk
\* first
MulticoreMergesLastChunkFirst ==
    (BothDispatched /\ task = "unpack_hashes_task" /\ Len(pool_chunks) = 2) =>
        /\ HasValue(serial_results) /\ HasValue(multicore_results)
        /\ multicore_results.val.list =
               SubSeq(serial_results.val.list, Len(pool_chunks[1]) + 1, Len(test_data))
               \o SubSeq(serial_results.val.list, 1, Len(pool_chunks[1]))

====
